---- MODULE Spec2Model ----
(***************************************************************************)
(* A model of the knob-tuning core of E2ETune-AI4DB: the database adapter  *)
(* (Database.get_conn, change_knob, restart_db, remove_auto_conf,          *)
(* fetch_inner_metrics), the tuning driver (stress_testing_tool            *)
(* .test_config) and the multi-threaded OLAP executor (multi_thread.run    *)
(* with its one_thread_given_queries workers).                             *)
(*                                                                         *)
(* The server, the cluster-control tool, the file system and the clock are *)
(* the environment: every outcome they can produce is a nondeterministic   *)
(* choice.  Rational results (throughput, average latency) are kept as     *)
(* exact fractions [num, den].                                             *)
(***************************************************************************)
EXTENDS Integers, Sequences, FiniteSets, TLC

----------------------------------------------------------------------------
(* Bounds of the model *)

\* number of knobs in a configuration (knobs are 1..NumKnobs, in dict order)
NumKnobs == 2
\* largest thread_num of a session
MaxThreads == 2
\* largest number of parsed queries in the workload file (multi_thread.run
\* on its own)
MaxQueries == 2
\* largest number of parsed queries in the workload file of a whole session
MaxSessionQueries == 1
\* number of test_config calls of one session
MaxIter == 2
\* largest total_wall_time, in clock ticks
MaxWall == 1
\* largest latency of one query, in clock ticks
MaxLatency == 1
\* largest max_retries explored for get_conn on its own
MaxRetriesArg == 4
\* largest number of fragments of a small workload file (data_pre on its own)
MaxFileQueries == 16
\* largest suggest_num (runcount) of a BO-A (SMAC) run
MaxSmacRuns == 5
\* largest suggest_num (runcount) of a BO-B (HEBO) run
MaxHeboRuns == 3
\* largest early_stop_plateau
MaxPlateau == 3
\* largest performance test_config returns to the tuner (the smallest is -1)
MaxPerf == 1
\* largest value of the tunable knob in a suggested configuration
MaxTunable == 1
\* largest suggest_num (runcount) of a HEBO run over an arbitrary knob
\* catalogue; a SMAC run gets up to one more, so that a plateau can end it
\* with budget left
MaxKnobRuns == 1
\* largest number of workload files of a small workload directory (the
\* sizes around the two thresholds of the orchestrator are explored too)
MaxWorkloads == 3
\* number of consecutive runs of the orchestrator over one directory
MaxMainRuns == 2
\* number of tuning sessions, over all runs, that end otherwise than by
\* returning after an evaluation has been recorded (the death of the process
\* included)
MaxFaults == 1
\* number of run_benchmark calls on one workload
MaxBenchRuns == 3
\* largest number of characters of a workload file that is split
MaxTextLen == 4

(* Program constants *)

\* get_conn(self, max_retries: int = 3)
DefaultMaxRetries == 3
\* int(self.benchmark_config.get('thread', 1))
DefaultThreads == 1
\* LARGE_INVALID_LATENCY = 1e9
LARGE_INVALID_LATENCY == 1000000000
\* if len(sql_list) > 3000: sql_list = sql_list[:3000]
QueryLimit == 3000
\* if total_workloads < 10: tune all of them, and go on after a failure
SmallSetLimit == 10
\* workloads_to_tune = workloads[:13]
BatchSize == 13

Knobs == 1..NumKnobs
Tools == {"dwg", "benchbase", "surrogate", "other"}
\* what postgresql.auto.conf holds for a knob: no override, an override the
\* server starts with, an override that keeps the server from starting
AutoConfValues == {"unset", "good", "bad"}

VARIABLES
    \* ---- environment
    serverUp,       \* the PostgreSQL server accepts connections
    autoConf,       \* postgresql.auto.conf: knob -> AutoConfValues
    \* ---- session configuration (fixed at construction)
    tool,           \* benchmark_config['tool']
    thread_num,     \* benchmark_config['thread']
    num_queries,    \* len(sql_list) of the workload file after data_pre
    \* ---- Database.get_conn
    gc,             \* activation record of get_conn
    \* ---- stress_testing_tool.test_config and what it calls
    pc,             \* position of the driver
    iteration_count,\* stress_testing_tool.iteration_count
    knobIdx,        \* change_knob: index of the knob the loop is at
    success,        \* change_knob: local success
    rs,             \* restart_db: what the call has done so far
    flag,           \* test_config: result of change_knob
    cur_state,      \* test_config: result of fetch_inner_metrics
    y,              \* test_config: measured performance
    result,         \* _test_by_dwg: what multi_thread.run returned
    events,         \* what this iteration has done, in order
    logs,           \* number of lines of the three record files
    ret,            \* outcome of the last test_config call
    heap,           \* the configuration mapping the caller passed ("config")
                    \* and the one copy.deepcopy made of it ("copy")
    temp_config,    \* test_config: the object temp_config refers to
    \* ---- multi_thread.run and its workers
    startIdx,       \* run: threads started so far
    joinIdx,        \* run: threads joined so far
    time_stamp,     \* the shared results dict: key -> ThreadStats or None
    wpc,            \* worker -> position
    wi,             \* worker -> index i of the query loop
    wstats,         \* worker -> its local query_count, total latency, error_count
    writes,         \* worker -> key -> number of stores into time_stamp
    reads,          \* worker -> keys of time_stamp it has looked up
    wconn,          \* worker -> its local connection (with its cursor), or None
    wused,          \* worker -> the connections it has executed queries on
    wfatal,         \* workers that took the fatal-exception path
    \* ---- multi_thread.data_pre
    dp,             \* activation record of data_pre
    \* ---- Tuner.tune, _smac and _hebo
    knobs_detail,   \* the knob catalogue: knob -> its type and whether
                    \* its min equals its max
    tuning_method,  \* tuning_config['tuning_method'], upper case
    runcount,       \* tuning_config['suggest_num']
    PLATEAU_ITERATIONS, \* tuning_config['early_stop_plateau']
    tpc,            \* position of the tuner
    iteration_counter,  \* iteration_counter['count']
    early_stop_state,   \* _smac: best_cost, iterations_without_improvement,
                        \* should_stop
    smac,           \* the SMAC facade: runs used of the budget, incumbent
    hebo,           \* the HEBO optimizer: its observe and suggest calls
    iteration,      \* _hebo: the loop variable
    best_config,    \* _hebo: best_config
    best_objective, \* _hebo: best_objective
    history_file,   \* the run history file, as written by the tuner
    best_config_file,   \* best_config.json, or None
    evals,          \* configuration, performance and objective of every
                    \* completed iteration
    tcalls,         \* the test_config calls of the tuner, in order
    \* ---- main.py
    main,           \* the orchestrator: the workload directory, the
                    \* performance-record directory, and the run in progress
    \* ---- BenchBaseRunner
    bench           \* the results directory of the workload, summary.json,
                    \* and the last run_benchmark call

envVars == <<serverUp, autoConf>>
cfgVars == <<tool, thread_num, num_queries>>
drvVars == <<pc, iteration_count, knobIdx, success, rs, flag, cur_state, y,
             result, events, logs, ret>>
dpVars  == <<dp>>
objVars == <<heap, temp_config>>
mainVars == <<main>>
benchVars == <<bench>>
tunerVars == <<knobs_detail, tuning_method, runcount, PLATEAU_ITERATIONS, tpc,
               iteration_counter, early_stop_state, smac, hebo, iteration,
               best_config, best_objective, history_file, best_config_file,
               evals, tcalls>>
mtVars  == <<startIdx, joinIdx, time_stamp, wpc, wi, wstats, writes, reads,
             wconn, wused, wfatal>>
vars    == <<serverUp, autoConf, tool, thread_num, num_queries, gc, pc,
             iteration_count, knobIdx, success, rs, flag, cur_state, y,
             result, events, logs, ret, startIdx, joinIdx, time_stamp, wpc,
             wi, wstats, writes, reads, wconn, wused, wfatal, dp, heap,
             temp_config, knobs_detail, tuning_method, runcount, PLATEAU_ITERATIONS, tpc,
             iteration_counter, early_stop_state, smac, hebo, iteration,
             best_config, best_objective, history_file, best_config_file,
             evals, tcalls, main, bench>>

Workers == 0..(MaxThreads - 1)
None == [kind |-> "none"]
Zero == [num |-> 0, den |-> 1]
Frac(n, d) == [num |-> n, den |-> d]

----------------------------------------------------------------------------
(* Database.remove_auto_conf *)

\* removed: data_path is set and `rm -f` succeeded; otherwise the function
\* prints and returns, leaving the file as it is
remove_auto_conf(removed) ==
    IF removed THEN [k \in Knobs |-> "unset"] ELSE autoConf

AutoConfBad == \E k \in Knobs : autoConf[k] = "bad"

----------------------------------------------------------------------------
(* Database.get_conn *)

\* psycopg2.connect: fails when the server is down, may fail when it is up
ConnectOutcomes == IF serverUp THEN {TRUE, FALSE} ELSE {FALSE}

\* psycopg2.connect(...): every successful call yields a new connection
\* object; it is named by the class and the instance whose call created it
psycopg2_connect(cls, id) == [kind |-> "conn", cls |-> cls, id |-> id]

GcIdle == [pc |-> "idle", max_retries |-> 0, attempt |-> 0,
           log |-> <<>>, purgeAt |-> <<>>, conn |-> None]

\* entry of get_conn: attempt counts the loop, log records every connect
\* outcome of this call, purgeAt the number of attempts made before each
\* remove_auto_conf of this call
get_conn_enter(max_retries) ==
    [pc |-> "loop", max_retries |-> max_retries, attempt |-> 0,
     log |-> <<>>, purgeAt |-> <<>>, conn |-> None]

\* faulty variant of InRetryLoop: one attempt too many (range(max_retries + 1))
InRetryLoop_OffByOne(attempt, max_retries) == attempt <= max_retries

\* for attempt in range(max_retries)
InRetryLoop(attempt, max_retries) == attempt < max_retries

\* one pass of the retry loop: return conn, or record the failure and go on
GetConnAttempt ==
    /\ gc.pc = "loop"
    /\ InRetryLoop(gc.attempt, gc.max_retries)
    /\ \E ok \in ConnectOutcomes :
         gc' = [gc EXCEPT !.pc = IF ok THEN "ret" ELSE "loop",
                          !.attempt = IF ok THEN @ ELSE @ + 1,
                          !.log = Append(@, ok),
                          !.conn = IF ok THEN psycopg2_connect("Database", 0)
                                   ELSE None]
    /\ UNCHANGED <<envVars, cfgVars, dpVars, objVars, mainVars, benchVars, tunerVars, drvVars, mtVars>>

\* the loop is exhausted: remove_auto_conf, then the final attempt follows
GetConnPurge ==
    /\ gc.pc = "loop"
    /\ ~InRetryLoop(gc.attempt, gc.max_retries)
    /\ \E removed \in BOOLEAN : autoConf' = remove_auto_conf(removed)
    /\ gc' = [gc EXCEPT !.pc = "final", !.purgeAt = Append(@, Len(gc.log))]
    /\ events' = Append(events, "purge")
    /\ UNCHANGED <<serverUp, cfgVars, dpVars, objVars, mainVars, benchVars, tunerVars, pc, iteration_count, knobIdx, success,
                   rs, flag, cur_state, y, result, logs, ret, mtVars>>

\* the final attempt: return conn or raise
GetConnFinal ==
    /\ gc.pc = "final"
    /\ \E ok \in ConnectOutcomes :
         gc' = [gc EXCEPT !.pc = IF ok THEN "ret" ELSE "raise",
                          !.log = Append(@, ok),
                          !.conn = IF ok THEN psycopg2_connect("Database", 0)
                                   ELSE None]
    /\ UNCHANGED <<envVars, cfgVars, dpVars, objVars, mainVars, benchVars, tunerVars, drvVars, mtVars>>

get_conn == GetConnAttempt \/ GetConnPurge \/ GetConnFinal

GetConnDone == gc.pc \in {"ret", "raise"}

----------------------------------------------------------------------------
(* Database.restart_db *)

RsIdle == [stop |-> "none", start |-> "none", retry |-> "none",
           purges |-> 0, retries |-> 0, result |-> "none"]

\* pg_ctlcluster start: exit code 0 brings the server up, which a bad
\* override in postgresql.auto.conf makes impossible
StartOutcomes ==
    (IF AutoConfBad THEN {} ELSE {"ok"}) \cup {"nonzero", "timeout"}

\* whether the server is up after a start with this outcome: a start that
\* timed out was killed by subprocess.run and may or may not have come up
UpAfterStart(o) ==
    IF o = "ok" THEN {TRUE}
    ELSE IF o = "timeout" /\ ~AutoConfBad THEN {TRUE, FALSE}
    ELSE {FALSE}

StartEvent(o) ==
    CASE o = "ok" -> "start_ok"
      [] o = "nonzero" -> "start_nonzero"
      [] OTHER -> "start_timeout"

\* subprocess.run([... 'stop'], check=True, timeout=stop_timeout): a
\* non-zero exit or a timeout raises, and restart_db returns False
RestartStop ==
    /\ pc = "rs_stop"
    /\ \E ok \in BOOLEAN :
         /\ rs' = [rs EXCEPT !.stop = IF ok THEN "ok" ELSE "fail",
                             !.result = IF ok THEN @ ELSE "false"]
         /\ serverUp' = IF ok THEN FALSE ELSE serverUp
         /\ events' = Append(events, IF ok THEN "stop_ok" ELSE "stop_fail")
         /\ pc' = IF ok THEN "rs_start" ELSE "rs_ret"
    /\ UNCHANGED <<autoConf, cfgVars, dpVars, objVars, mainVars, benchVars, tunerVars, gc, iteration_count, knobIdx, success,
                   flag, cur_state, y, result, logs, ret, mtVars>>

\* faulty variant of StartFailed: the exit code of the first start is ignored
StartFailed_Ignored(outcome) == FALSE

\* if result.returncode != 0
StartFailed(outcome) == outcome = "nonzero"

\* the first start (no check=True): exit code 0, non-zero, or a timeout,
\* which raises and makes restart_db return False
RestartStart ==
    /\ pc = "rs_start"
    /\ \E o \in StartOutcomes :
         /\ rs' = [rs EXCEPT !.start = o,
                             !.result = IF o = "timeout" THEN "false"
                                        ELSE IF StartFailed(o) THEN @
                                        ELSE "true"]
         /\ serverUp' \in UpAfterStart(o)
         /\ events' = Append(events, StartEvent(o))
         /\ pc' = IF o # "timeout" /\ StartFailed(o) THEN "rs_purge"
                  ELSE "rs_ret"
    /\ UNCHANGED <<autoConf, cfgVars, dpVars, objVars, mainVars, benchVars, tunerVars, gc, iteration_count, knobIdx, success,
                   flag, cur_state, y, result, logs, ret, mtVars>>

\* self.remove_auto_conf() after a failed start
RestartPurge ==
    /\ pc = "rs_purge"
    /\ \E removed \in BOOLEAN : autoConf' = remove_auto_conf(removed)
    /\ rs' = [rs EXCEPT !.purges = @ + 1]
    /\ events' = Append(events, "purge")
    /\ pc' = "rs_retry"
    /\ UNCHANGED <<serverUp, cfgVars, dpVars, objVars, mainVars, benchVars, tunerVars, gc, iteration_count, knobIdx, success,
                   flag, cur_state, y, result, logs, ret, mtVars>>

\* the retried start, with check=True: anything but exit code 0 raises
RestartRetry ==
    /\ pc = "rs_retry"
    /\ \E o \in StartOutcomes :
         /\ rs' = [rs EXCEPT !.retry = o, !.retries = @ + 1,
                             !.result = IF o = "ok" THEN "true" ELSE "false"]
         /\ serverUp' \in UpAfterStart(o)
         /\ events' = Append(events, IF o = "ok" THEN "retry_ok"
                                     ELSE "retry_fail")
    /\ pc' = "rs_ret"
    /\ UNCHANGED <<autoConf, cfgVars, dpVars, objVars, mainVars, benchVars, tunerVars, gc, iteration_count, knobIdx, success,
                   flag, cur_state, y, result, logs, ret, mtVars>>

restart_db == RestartStop \/ RestartStart \/ RestartPurge \/ RestartRetry

----------------------------------------------------------------------------
(* Database.change_knob *)

\* a knob value of the configuration: one the server takes and starts with,
\* one it takes but cannot start with, one ALTER SYSTEM rejects, and one
\* int()/float() cannot cast
ValueClasses == {"good", "bad", "rejected", "uncastable"}

\* conn = self.get_conn() has finished.  An exception of get_conn leaves
\* change_knob and test_config (neither catches it)
ChangeKnobConn ==
    /\ pc = "ck_conn"
    /\ GetConnDone
    /\ pc' = IF gc.pc = "ret" THEN "ck_loop" ELSE "raise"
    /\ gc' = GcIdle
    /\ knobIdx' = 1
    /\ success' = TRUE
    /\ UNCHANGED <<envVars, cfgVars, dpVars, objVars, mainVars, benchVars, tunerVars, iteration_count, rs, flag, cur_state, y,
                   result, events, logs, ret, mtVars>>

\* a faulty handler: the first rejected SET ends the loop
AfterSetError_Break(idx) == NumKnobs + 1

\* except Exception around cursor.execute: success = False, and the loop
\* goes on with the next knob
AfterSetError(idx) == idx + 1

\* one pass of `for knob, raw_val in knobs.items()`
ChangeKnobSet ==
    /\ pc = "ck_loop"
    /\ knobIdx <= NumKnobs
    /\ \E c \in ValueClasses :
         CASE c = "uncastable" ->
                \* ValueError out of the loop: except Exception, finally
                /\ success' = FALSE
                /\ pc' = "ck_ret"
                /\ events' = Append(events, "cast_error")
                /\ UNCHANGED <<autoConf, knobIdx>>
           [] c = "rejected" ->
                /\ success' = FALSE
                /\ knobIdx' = AfterSetError(knobIdx)
                /\ events' = Append(events, "set_fail")
                /\ UNCHANGED <<autoConf, pc>>
           [] OTHER ->
                /\ autoConf' = [autoConf EXCEPT ![knobIdx] = c]
                /\ knobIdx' = knobIdx + 1
                /\ events' = Append(events, "set_ok")
                /\ UNCHANGED <<success, pc>>
    /\ UNCHANGED <<serverUp, cfgVars, dpVars, objVars, mainVars, benchVars, tunerVars, gc, iteration_count, rs, flag,
                   cur_state, y, result, logs, ret, mtVars>>

\* faulty variant of RestartWanted: restart whatever the SETs did
RestartWanted_Always(ok) == TRUE

\* if success: ... self.restart_db()
RestartWanted(ok) == ok

\* after the loop: restart_db when every SET succeeded, else skip it
ChangeKnobAfterLoop ==
    /\ pc = "ck_loop"
    /\ knobIdx > NumKnobs
    /\ pc' = IF RestartWanted(success) THEN "rs_stop" ELSE "ck_ret"
    /\ events' = IF RestartWanted(success) THEN Append(events, "restart")
                 ELSE events
    /\ UNCHANGED <<envVars, cfgVars, dpVars, objVars, mainVars, benchVars, tunerVars, gc, iteration_count, knobIdx, success,
                   rs, flag, cur_state, y, result, logs, ret, mtVars>>

\* restart_ok = self.restart_db(); if not restart_ok: success = False
AfterRestart(ok, restart_ok) == ok /\ restart_ok

ChangeKnobRestarted ==
    /\ pc = "rs_ret"
    /\ success' = AfterRestart(success, rs.result = "true")
    /\ events' = Append(events, "restart_ret")
    /\ pc' = "ck_ret"
    /\ UNCHANGED <<envVars, cfgVars, dpVars, objVars, mainVars, benchVars, tunerVars, gc, iteration_count, knobIdx, rs, flag,
                   cur_state, y, result, logs, ret, mtVars>>

\* faulty variant of AfterApply: the workload is dispatched without the counters
AfterApply_SkipFetch == "tc_dispatch"

\* test_config after change_knob has returned:
\* cur_state = self.db.fetch_inner_metrics()
AfterApply == "fm_conn"

\* finally: close; return success.  test_config goes on to
\* self.db.fetch_inner_metrics(), which opens with get_conn
ChangeKnobReturn ==
    /\ pc = "ck_ret"
    /\ flag' = IF success THEN "true" ELSE "false"
    /\ events' = Append(events, "change_knob_ret")
    /\ gc' = get_conn_enter(DefaultMaxRetries)
    /\ pc' = AfterApply
    /\ UNCHANGED <<envVars, cfgVars, dpVars, objVars, mainVars, benchVars, tunerVars, iteration_count, knobIdx, success, rs,
                   cur_state, y, result, logs, ret, mtVars>>

change_knob ==
    \/ ChangeKnobConn \/ ChangeKnobSet \/ ChangeKnobAfterLoop
    \/ ChangeKnobRestarted \/ ChangeKnobReturn

----------------------------------------------------------------------------
(* Database.fetch_inner_metrics *)

\* the columns of the pg_stat_database query
DbCounters == {"xact_commit", "xact_rollback", "blks_read", "blks_hit",
               "tup_returned", "tup_fetched", "tup_inserted", "conflicts",
               "tup_updated", "tup_deleted"}

\* the entries derived from the two block-counter queries
IoCounters == {"disk_read_count", "disk_write_count", "disk_read_bytes",
               "disk_write_bytes"}

\* metrics: Dict[str, float] = {}
NoMetrics == [name \in {} |-> "0.0"]

\* the entries of names, each with the value read from the server
Measured(names) == [name \in names |-> "measured"]

\* the first of the three counter queries that raises, if any
FailPoints == {"none", "pg_stat_database", "pg_statio_all_tables",
               "pg_stat_bgwriter"}

\* metrics when the try block is left: the first query fills the ten
\* database counters, the io entries are stored after the third query
MetricsAtExit(failed) ==
    IF failed = "pg_stat_database" THEN NoMetrics
    ELSE IF failed = "none" THEN Measured(DbCounters \cup IoCounters)
    ELSE Measured(DbCounters)

\* a faulty handler: what was fetched before the error is returned
OnError_Keep(metrics) == metrics

\* except Exception: metrics is replaced by the all-zero dictionary
OnError(metrics) == [name \in DbCounters \cup IoCounters |-> "0.0"]

\* the mapping fetch_inner_metrics returns
FetchResult(failed) ==
    IF failed = "none" THEN MetricsAtExit(failed)
                       ELSE OnError(MetricsAtExit(failed))

\* the three counter queries: all succeed (the measured values) or one
\* fails (the all-zero mapping).  An exception of get_conn propagates
fetch_inner_metrics ==
    /\ pc = "fm_conn"
    /\ GetConnDone
    /\ \/ /\ gc.pc = "ret"
          /\ \E failed \in FailPoints :
               cur_state' = FetchResult(failed)
          /\ events' = Append(events, "fetch")
          /\ pc' = "tc_dispatch"
       \/ /\ gc.pc = "raise"
          /\ pc' = "raise"
          /\ UNCHANGED <<cur_state, events>>
    /\ gc' = GcIdle
    /\ UNCHANGED <<envVars, cfgVars, dpVars, objVars, mainVars, benchVars, tunerVars, iteration_count, knobIdx, success, rs,
                   flag, y, result, logs, ret, mtVars>>

----------------------------------------------------------------------------
(* multi_thread.data_pre *)

DpIdle == [pc |-> "idle", file_len |-> 0, sql_list |-> <<>>, i |-> 0,
           sql_list_idx |-> <<>>, wg_file |-> <<>>]

\* the fragments of a workload file, after the trailing empty one has been
\* removed: fragment i of the file is query i (queries are named by their
\* position, counted from 0)
ParsedList(n) == [k \in 1..n |-> k - 1]

\* if len(sql_list) > 3000: sql_list = sql_list[:3000]
Truncate(list) ==
    IF Len(list) > QueryLimit THEN SubSeq(list, 1, QueryLimit) ELSE list

\* faulty variant of thread_id_of: blocks of consecutive queries
thread_id_of_Blocks(i, n) == (i \div 2) % n

\* thread_id = i % self.thread_num
thread_id_of(i, n) == i % n

\* the file is read, split, stripped and limited; the partition starts as
\* {i: [] for i in range(self.thread_num)}
DataPreRead ==
    /\ dp.pc = "read"
    /\ dp' = [dp EXCEPT !.pc = "loop",
                        !.sql_list = Truncate(ParsedList(dp.file_len)),
                        !.i = 0,
                        !.sql_list_idx = [w \in 0..(thread_num - 1) |-> <<>>]]
    /\ UNCHANGED <<envVars, cfgVars, objVars, mainVars, benchVars, tunerVars, gc, drvVars,
                   mtVars>>

\* one pass of `for i, query in enumerate(sql_list)`
DataPreAssign ==
    /\ dp.pc = "loop"
    /\ dp.i < Len(dp.sql_list)
    /\ dp' = [dp EXCEPT
                 !.sql_list_idx[thread_id_of(dp.i, thread_num)] =
                     Append(@, dp.sql_list[dp.i + 1]),
                 !.i = @ + 1]
    /\ UNCHANGED <<envVars, cfgVars, objVars, mainVars, benchVars, tunerVars, gc, drvVars,
                   mtVars>>

\* the loop is over: the sizes are printed and data_pre returns
DataPreReturn ==
    /\ dp.pc = "loop"
    /\ dp.i = Len(dp.sql_list)
    /\ dp' = [dp EXCEPT !.pc = "done"]
    /\ UNCHANGED <<envVars, cfgVars, objVars, mainVars, benchVars, tunerVars, gc, drvVars,
                   mtVars>>

data_pre == DataPreRead \/ DataPreAssign \/ DataPreReturn

\* The text of a workload file, character by character: "q" is a character
\* of a statement, "sp" a blank, ";" and "nl" the two delimiters.
FileChars == {"q", "sp", ";", "nl"}
Delimiters == {";", "nl"}

\* re.split(r'[;\n]+', text), text being read from the left: fragment is
\* what has been read since the last delimiter, and in_run tells that the
\* last character read was a delimiter
RECURSIVE re_split(_, _, _)
re_split(text, fragment, in_run) ==
    IF text = <<>> THEN <<fragment>>
    ELSE IF Head(text) \in Delimiters
         THEN IF in_run THEN re_split(Tail(text), <<>>, TRUE)
              ELSE <<fragment>> \o re_split(Tail(text), <<>>, TRUE)
         ELSE re_split(Tail(text), Append(fragment, Head(text)), FALSE)

\* str.strip()
RECURSIVE strip(_)
strip(query) ==
    IF query = <<>> THEN query
    ELSE IF Head(query) = "sp" THEN strip(Tail(query))
    ELSE IF query[Len(query)] = "sp"
         THEN strip(SubSeq(query, 1, Len(query) - 1))
         ELSE query

\* sql_list[i] = query.strip() + ";"
Suffixed(list) == [i \in 1..Len(list) |-> Append(strip(list[i]), ";")]

\* a faulty clean-up: every empty statement is removed
RemoveTrailing_All(list) == SelectSeq(list, LAMBDA q : q # <<";">>)

\* if sql_list[-1] == ";": sql_list = sql_list[0:-1]
RemoveTrailing(list) ==
    IF list[Len(list)] = <<";">> THEN SubSeq(list, 1, Len(list) - 1)
                                 ELSE list

\* lines 173-191 on the text of the file: split, strip and suffix, drop the
\* trailing empty statement, limit; the partition starts empty
DataPreSplit ==
    /\ dp.pc = "split"
    /\ dp' = [dp EXCEPT
                 !.pc = "loop",
                 !.sql_list = Truncate(RemoveTrailing(Suffixed(
                                  re_split(dp.wg_file, <<>>, FALSE)))),
                 !.i = 0,
                 !.sql_list_idx = [w \in 0..(thread_num - 1) |-> <<>>]]
    /\ UNCHANGED <<envVars, cfgVars, objVars, mainVars, benchVars, tunerVars, gc, drvVars,
                   mtVars>>

----------------------------------------------------------------------------
(* one_thread_given_queries: the worker threads of multi_thread.run *)

\* multi_thread.data_pre, as far as run needs it: query i of the parsed list
\* goes to worker i % thread_num
sql_list_idx(w) ==
    {i \in 0..(num_queries - 1) : i % thread_num = w}

WgLen(w) == Cardinality(sql_list_idx(w))

ThreadStats(query_count, total_latency, error_count) ==
    [kind |-> "stats", value |-> query_count, type |-> total_latency,
     error_count |-> error_count]

NoStats == [query_count |-> 0, total_query_latency |-> 0, error_count |-> 0]

\* thread_id=i in multi_thread.run
ThreadId(w) == w

\* faulty variant of connect_og: the workers run on one connection owned by
\* the executor
connect_og_Shared(w) == psycopg2_connect("multi_thread", 0)

\* connection, cur = connect_og(...) in the run of worker w
connect_og(w) == psycopg2_connect("one_thread_given_queries", w)

\* connect_og and open(self.log_path, 'a') with its first write: a failure
\* of either is a fatal error of the worker
WorkerConnect(w) ==
    /\ wpc[w] = "connect"
    /\ \E connected \in ConnectOutcomes, opened \in BOOLEAN :
         /\ wconn' = [wconn EXCEPT ![w] = IF connected THEN connect_og(w)
                                          ELSE None]
         /\ IF connected /\ opened
            THEN /\ wpc' = [wpc EXCEPT ![w] = "loop"]
                 /\ UNCHANGED wfatal
            ELSE /\ wpc' = [wpc EXCEPT ![w] = "fatal"]
                 /\ wfatal' = wfatal \cup {w}
    /\ UNCHANGED <<envVars, cfgVars, dpVars, objVars, mainVars, benchVars, tunerVars, gc, drvVars, startIdx, joinIdx,
                   time_stamp, wi, wstats, writes, reads, wused>>

\* if (i + 1) % 100 == 0 or (i + 1) == len(sql_list)
ProgressPoint(i, len) == (i + 1) % 100 = 0 \/ (i + 1) = len

\* one pass of `for i, sql in enumerate(sql_list)`.  executed: cur.execute
\* and commit succeeded; lat: the latency measured; logged: the progress
\* line could be written; errLogged: the except branch could write its line
\* (if not, the exception leaves the loop: a fatal error)
WorkerQuery(w) ==
    /\ wpc[w] = "loop"
    /\ wi[w] < WgLen(w)
    /\ \E executed \in BOOLEAN, lat \in 0..MaxLatency,
          logged \in BOOLEAN, errLogged \in BOOLEAN :
         LET st == wstats[w]
             counted == IF executed
                        THEN [st EXCEPT !.query_count = @ + 1,
                                        !.total_query_latency = @ + lat]
                        ELSE st
             failed == \/ ~executed
                       \/ ProgressPoint(wi[w], WgLen(w)) /\ ~logged
             after == IF failed
                      THEN [counted EXCEPT !.error_count = @ + 1]
                      ELSE counted
         IN  IF failed /\ ~errLogged
             THEN /\ wpc' = [wpc EXCEPT ![w] = "fatal"]
                  /\ wfatal' = wfatal \cup {w}
                  /\ wstats' = [wstats EXCEPT ![w] = NoStats]
                  /\ wi' = [wi EXCEPT ![w] = 0]
             ELSE /\ wstats' = [wstats EXCEPT ![w] = after]
                  /\ wi' = [wi EXCEPT ![w] = @ + 1]
                  /\ UNCHANGED <<wpc, wfatal>>
    \* cur.execute(sql) runs on the cursor of the worker's own connection
    /\ wused' = [wused EXCEPT ![w] = @ \cup {wconn[w]}]
    /\ UNCHANGED <<envVars, cfgVars, dpVars, objVars, mainVars, benchVars, tunerVars, gc, drvVars, startIdx, joinIdx,
                   time_stamp, writes, reads, wconn>>

\* self.time_stamp[self.thread_id] = ThreadStats(query_count,
\*     total_query_latency, error_count)
WorkerStore(w) ==
    /\ wpc[w] = "loop"
    /\ wi[w] = WgLen(w)
    /\ time_stamp' = [time_stamp EXCEPT ![ThreadId(w)] =
            ThreadStats(wstats[w].query_count,
                        wstats[w].total_query_latency,
                        wstats[w].error_count)]
    /\ writes' = [writes EXCEPT ![w][ThreadId(w)] = @ + 1]
    /\ wpc' = [wpc EXCEPT ![w] = "stored"]
    /\ wstats' = [wstats EXCEPT ![w] = NoStats]
    /\ wi' = [wi EXCEPT ![w] = 0]
    /\ UNCHANGED <<envVars, cfgVars, dpVars, objVars, mainVars, benchVars, tunerVars, gc, drvVars, startIdx, joinIdx, reads,
                   wconn, wused, wfatal>>

\* the completion line and the close of the log file: if they cannot be
\* written the worker lands in `except Exception` after having stored;
\* otherwise finally closes cursor and connection and the thread ends
WorkerFinish(w) ==
    /\ wpc[w] = "stored"
    /\ \E written \in BOOLEAN :
         IF written
         THEN /\ wpc' = [wpc EXCEPT ![w] = "done"]
              /\ wconn' = [wconn EXCEPT ![w] = None]
              /\ UNCHANGED wfatal
         ELSE /\ wpc' = [wpc EXCEPT ![w] = "fatal"]
              /\ wfatal' = wfatal \cup {w}
              /\ UNCHANGED wconn
    /\ UNCHANGED <<envVars, cfgVars, dpVars, objVars, mainVars, benchVars, tunerVars, gc, drvVars, startIdx, joinIdx,
                   time_stamp, wi, wstats, writes, reads, wused>>

\* faulty variant of NotRecorded: the fatal branch stores without looking
NotRecorded_Unguarded(key) == TRUE

\* if self.thread_id not in self.time_stamp
NotRecorded(key) == time_stamp[key] = None

\* except Exception: record ThreadStats(0, 0.0) unless a record is there;
\* then finally closes cursor and connection and the thread ends
WorkerFatal(w) ==
    /\ wpc[w] = "fatal"
    /\ reads' = [reads EXCEPT ![w] = @ \cup {ThreadId(w)}]
    /\ IF NotRecorded(ThreadId(w))
       THEN /\ time_stamp' = [time_stamp EXCEPT ![ThreadId(w)] =
                                  ThreadStats(0, 0, 0)]
            /\ writes' = [writes EXCEPT ![w][ThreadId(w)] = @ + 1]
       ELSE UNCHANGED <<time_stamp, writes>>
    /\ wpc' = [wpc EXCEPT ![w] = "done"]
    /\ wconn' = [wconn EXCEPT ![w] = None]
    /\ UNCHANGED <<envVars, cfgVars, dpVars, objVars, mainVars, benchVars, tunerVars, gc, drvVars, startIdx, joinIdx, wi,
                   wstats, wused, wfatal>>

one_thread_given_queries(w) ==
    \/ WorkerConnect(w) \/ WorkerQuery(w) \/ WorkerStore(w)
    \/ WorkerFinish(w) \/ WorkerFatal(w)

----------------------------------------------------------------------------
(* multi_thread.run *)

Threads == 0..(thread_num - 1)

\* for thread in threads: thread.start()
MtStart ==
    /\ pc = "mt_start"
    /\ startIdx < thread_num
    /\ wpc' = [wpc EXCEPT ![startIdx] = "connect"]
    /\ startIdx' = startIdx + 1
    /\ pc' = IF startIdx + 1 = thread_num THEN "mt_join" ELSE "mt_start"
    /\ UNCHANGED <<envVars, cfgVars, dpVars, objVars, mainVars, benchVars, tunerVars, gc, iteration_count, knobIdx, success,
                   rs, flag, cur_state, y, result, events, logs, ret,
                   joinIdx, time_stamp, wi, wstats, writes, reads, wconn,
                   wused, wfatal>>

\* faulty variant of Joinable: join returns without waiting for the thread
Joinable_NoWait(i) == TRUE

\* thread.join() returns once the thread has terminated
Joinable(i) == wpc[i] = "done"

\* for thread in threads: thread.join()
MtJoin ==
    /\ pc = "mt_join"
    /\ joinIdx < thread_num
    /\ Joinable(joinIdx)
    /\ joinIdx' = joinIdx + 1
    /\ UNCHANGED <<envVars, cfgVars, dpVars, objVars, mainVars, benchVars, tunerVars, gc, drvVars, startIdx, time_stamp, wpc,
                   wi, wstats, writes, reads, wconn, wused, wfatal>>

RECURSIVE SumOver(_, _)
SumOver(f, S) ==
    IF S = {} THEN 0
    ELSE LET x == CHOOSE e \in S : TRUE IN f[x] + SumOver(f, S \ {x})

\* the aggregation loop over range(self.thread_num)
Present == {i \in Threads : time_stamp[i] # None}
total_queries == SumOver([i \in Present |-> time_stamp[i].value], Present)
total_latency == SumOver([i \in Present |-> time_stamp[i].type], Present)
total_errors ==
    SumOver([i \in Present |-> time_stamp[i].error_count], Present)
missing_threads == Cardinality(Threads \ Present)

\* faulty variant of Invalid: only a missing record invalidates the iteration
Invalid_MissingOnly(errors, missing) == missing > 0

\* if total_errors > 0 or missing_threads > 0
Invalid(errors, missing) == errors > 0 \/ missing > 0

\* faulty variant of RunResult: an invalid iteration gets the penalty
\* latency but keeps its measured throughput
RunResult_KeepQps(wall) ==
    [avg_time_per_query |->
         IF Invalid(total_errors, missing_threads)
         THEN Frac(LARGE_INVALID_LATENCY, 1)
         ELSE IF total_queries > 0 THEN Frac(total_latency, total_queries)
              ELSE Zero,
     throughput_qps |->
         IF wall > 0 THEN Frac(total_queries, wall) ELSE Zero]

\* the dict run returns, for a wall-clock time of `wall` ticks
RunResult(wall) ==
    IF Invalid(total_errors, missing_threads)
    THEN [avg_time_per_query |-> Frac(LARGE_INVALID_LATENCY, 1),
          throughput_qps |-> Zero]
    ELSE [avg_time_per_query |->
              IF total_queries > 0 THEN Frac(total_latency, total_queries)
              ELSE Zero,
          throughput_qps |->
              IF wall > 0 THEN Frac(total_queries, wall) ELSE Zero]

\* everything of run after the joins: wall time, aggregation, the summary
\* log, the return; test_config takes ['throughput_qps'] of it as y
MtAggregate ==
    /\ pc = "mt_join"
    /\ joinIdx = thread_num
    /\ \E wall \in 0..MaxWall :
         /\ result' = RunResult(wall)
         /\ y' = RunResult(wall).throughput_qps
    /\ pc' = "tc_record"
    /\ UNCHANGED <<envVars, cfgVars, dpVars, objVars, mainVars, benchVars, tunerVars, gc, iteration_count, knobIdx, success,
                   rs, flag, cur_state, events, logs, ret, mtVars>>

multi_thread_run == MtStart \/ MtJoin \/ MtAggregate

----------------------------------------------------------------------------
(* stress_testing_tool.test_config *)

RetIdle == [status |-> "none", y |-> None, line |-> None]

\* a configuration mapping: its knob entries, and the keys test_config
\* adds to a mapping it records
Mapping(fields) == [knobs |-> "as given", fields |-> fields]

\* the mappings alive between two calls: the caller's configuration
HeapIdle == [config |-> Mapping({}), copy |-> None]

\* faulty variant of deepcopy: temp_config = config, the same object
deepcopy_Alias(obj) == [ref |-> obj, heap |-> heap]

\* copy.deepcopy(config): a new object with the same entries
deepcopy(obj) == [ref |-> "copy", heap |-> [heap EXCEPT !.copy = heap[obj]]]

\* the keys the three records add: tps, iteration, workload, and for the
\* offline sample y and inner_metrics
RecordFields == {"tps", "iteration", "workload"}
                  \cup IF tool # "surrogate" THEN {"y", "inner_metrics"}
                                              ELSE {}

\* test_config is left: temp_config and the object only it refers to are
\* gone
Discard(h) == [h EXCEPT !.copy = None]
NoLogs == [train |-> 0, offline |-> 0, perf |-> 0]

\* the tuner calls test_config for the next configuration; with a real tool
\* the call starts with self.db.change_knob(config), which opens with
\* get_conn
TestConfigCall ==
    /\ pc = "idle"
    /\ iteration_count < MaxIter
    /\ iteration_count' = iteration_count + 1
    /\ events' = <<>>
    /\ rs' = RsIdle
    /\ flag' = "none"
    /\ cur_state' = NoMetrics
    /\ y' = None
    /\ result' = None
    /\ ret' = [status |-> "running", y |-> None, line |-> None]
    /\ IF tool # "surrogate"
       THEN /\ pc' = "ck_conn"
            /\ gc' = get_conn_enter(DefaultMaxRetries)
       ELSE /\ pc' = "tc_dispatch"
            /\ gc' = GcIdle
    /\ temp_config' = deepcopy("config").ref
    /\ heap' = deepcopy("config").heap
    /\ UNCHANGED <<envVars, cfgVars, dpVars, mainVars, benchVars, tunerVars, knobIdx, success,
                   logs, mtVars>>

\* tool == 'dwg': _test_by_dwg builds the multi_thread object, data_pre
\* partitions the queries, run creates the threads and the results dict
TestByDwg ==
    /\ pc = "tc_dispatch"
    /\ tool = "dwg"
    /\ events' = Append(events, "workload")
    /\ wpc' = [w \in Workers |-> IF w < thread_num THEN "new" ELSE "none"]
    /\ time_stamp' = [k \in Workers |-> None]
    /\ writes' = [w \in Workers |-> [k \in Workers |-> 0]]
    /\ reads' = [w \in Workers |-> {}]
    /\ wconn' = [w \in Workers |-> None]
    /\ wused' = [w \in Workers |-> {}]
    /\ wfatal' = {}
    /\ wi' = [w \in Workers |-> 0]
    /\ wstats' = [w \in Workers |-> NoStats]
    /\ startIdx' = 0
    /\ joinIdx' = 0
    /\ pc' = "mt_start"
    /\ UNCHANGED <<envVars, cfgVars, dpVars, objVars, mainVars, benchVars, tunerVars, gc, iteration_count, knobIdx, success,
                   rs, flag, cur_state, y, result, logs, ret>>

\* tool == 'benchbase': run_benchmark returns the parsed throughput, or 0.0
TestByBenchbase ==
    /\ pc = "tc_dispatch"
    /\ tool = "benchbase"
    /\ events' = Append(events, "workload")
    /\ y' \in {Zero, Frac(1, 1)}
    /\ pc' = "tc_record"
    /\ UNCHANGED <<envVars, cfgVars, dpVars, objVars, mainVars, benchVars, tunerVars, gc, iteration_count, knobIdx, success,
                   rs, flag, cur_state, result, logs, ret, mtVars>>

\* tool == 'surrogate': the prediction of the surrogate model
TestBySurrogate ==
    /\ pc = "tc_dispatch"
    /\ tool = "surrogate"
    /\ y' \in {Frac(-1, 1), Zero, Frac(1, 1)}
    /\ pc' = "tc_record"
    /\ UNCHANGED <<envVars, cfgVars, dpVars, objVars, mainVars, benchVars, tunerVars, gc, iteration_count, knobIdx, success,
                   rs, flag, cur_state, result, events, logs, ret, mtVars>>

\* any other tool: log the error and return 0.0, recording nothing
UnknownTool ==
    /\ pc = "tc_dispatch"
    /\ tool \notin {"dwg", "benchbase", "surrogate"}
    /\ ret' = [status |-> "returned", y |-> Zero, line |-> None]
    /\ pc' = "idle"
    /\ temp_config' = "none"
    /\ heap' = Discard(heap)
    /\ UNCHANGED <<envVars, cfgVars, dpVars, mainVars, benchVars, tunerVars, gc, iteration_count, knobIdx, success,
                   rs, flag, cur_state, y, result, events, logs, mtVars>>

\* a faulty recorder: the offline sample is written for every tool
AppendRecords_Always(files) ==
    [train |-> files.train + 1,
     offline |-> files.offline + 1,
     perf |-> files.perf + 1]

\* one line appended to the training log, to the offline sample unless the
\* tool is surrogate, and to the per-workload performance file
AppendRecords(files) ==
    [train |-> files.train + 1,
     offline |-> IF tool # "surrogate" THEN files.offline + 1
                 ELSE files.offline,
     perf |-> files.perf + 1]

\* the three records (training log, offline sample unless surrogate, the
\* per-workload performance file) and `return y`
TestConfigRecord ==
    /\ pc = "tc_record"
    /\ logs' = AppendRecords(logs)
    /\ ret' = [status |-> "returned", y |-> y, line |-> y]
    /\ pc' = "idle"
    /\ temp_config' = "none"
    /\ heap' = Discard([heap EXCEPT ![temp_config].fields =
                                        @ \cup RecordFields])
    \* the locals of multi_thread.run are gone; the thread objects live on
    /\ time_stamp' = [k \in Workers |-> None]
    /\ writes' = [w \in Workers |-> [k \in Workers |-> 0]]
    /\ reads' = [w \in Workers |-> {}]
    /\ wconn' = [w \in Workers |-> None]
    /\ wused' = [w \in Workers |-> {}]
    /\ wfatal' = {}
    /\ startIdx' = 0
    /\ joinIdx' = 0
    /\ UNCHANGED <<envVars, cfgVars, dpVars, mainVars, benchVars, tunerVars, gc, iteration_count, knobIdx, success,
                   rs, flag, cur_state, y, result, events, wpc, wi, wstats>>

\* an exception of get_conn leaves test_config: nothing is recorded, and the
\* tuner's loop over the configurations ends
TestConfigRaise ==
    /\ pc = "raise"
    /\ ret' = [status |-> "raised", y |-> None, line |-> None]
    /\ pc' = "stopped"
    /\ temp_config' = "none"
    /\ heap' = Discard(heap)
    /\ UNCHANGED <<envVars, cfgVars, dpVars, mainVars, benchVars, tunerVars, gc, iteration_count, knobIdx, success,
                   rs, flag, cur_state, y, result, events, logs, mtVars>>

test_config ==
    \/ TestConfigCall \/ TestByDwg \/ TestByBenchbase \/ TestBySurrogate
    \/ UnknownTool \/ TestConfigRecord \/ TestConfigRaise

----------------------------------------------------------------------------
(* Tuner: values shared by _smac and _hebo *)

\* float('inf'), and a finite objective
Inf == [inf |-> TRUE, v |-> 0]
Fin(x) == [inf |-> FALSE, v |-> x]

\* a < b on the floats of the tuner
Lt(a, b) == ~a.inf /\ (b.inf \/ a.v < b.v)

\* what test_config returns to the tuner
PerfValues == (0 - 1)..MaxPerf

\* faulty variant of Objective: the performance itself is minimised
Objective_Unsigned(perf) == perf

\* -perf if perf > 0 else perf
Objective(perf) == IF perf > 0 THEN 0 - perf ELSE perf

\* the 'type' of a knob in the catalogue: the two the tuner tests for, and
\* the one Database.change_knob casts to float
KnobTypes == {"integer", "float", "real"}

\* what the tuner reads of a knob: its type, and whether min == max
KnobDetails == [type : KnobTypes, fixed : BOOLEAN]

\* the catalogue of the tuning runs explored in full: one tunable integer
\* knob, the others constant
OneTunable == [k \in Knobs |-> [type |-> "integer", fixed |-> k # 1]]

\* a catalogue in which every knob has min == max
NoneTunable == [k \in Knobs |-> [type |-> "integer", fixed |-> TRUE]]

\* the knobs with detail['min'] == detail['max']
ConstantNames == {k \in Knobs : knobs_detail[k].fixed}

\* the names of params (_hebo), and of the hyperparameters of cs that are
\* not Constant (_smac): the knobs of type integer or float with min # max
params == {k \in Knobs : /\ ~knobs_detail[k].fixed
                         /\ knobs_detail[k].type \in {"integer", "float"}}

\* a configuration: the knobs it has a value for, the value of its tunable
\* part, and where the values of the constant knobs (min == max) were
\* taken from
Config(t, c) ==
    [t |-> t, c |-> c,
     names |-> IF c = "default" THEN Knobs ELSE params \cup ConstantNames]
TunableValues == IF params = {} THEN {0} ELSE 0..MaxTunable

\* {name: detail['default'] for name, detail in self.knobs_detail.items()}
default_config == Config(0, "default")

\* the tunable part of a configuration, as handed to hebo.observe
Tunable(config) == config.t

TunerIdle ==
    /\ knobs_detail = OneTunable
    /\ tuning_method = "SMAC"
    /\ runcount = 0
    /\ PLATEAU_ITERATIONS = 0
    /\ tpc = "idle"
    /\ iteration_counter = 0
    /\ early_stop_state = [best_cost |-> Inf,
                           iterations_without_improvement |-> 0,
                           should_stop |-> FALSE]
    /\ smac = [runs |-> 0, incumbent |-> None]
    /\ hebo = <<>>
    /\ iteration = 0
    /\ best_config = None
    /\ best_objective = Inf
    /\ history_file = <<>>
    /\ best_config_file = None
    /\ evals = <<>>
    /\ tcalls = <<>>

\* the tuner's view of stress_tester.test_config(config, iteration=n)
TestConfigCalled(config, n) == Append(tcalls, [iteration |-> n, config |-> config])

----------------------------------------------------------------------------
(* Tuner._smac *)

\* the configuration SMAC reports as smac.solver.incumbent / returns from
\* optimize(): SMAC's own choice among what it has run
SolverIncumbent == [kind |-> "smac.solver.incumbent"]

\* the configuration SMAC hands to objective_function: SMAC's own choice
SmacSuggested == [kind |-> "smac.suggested",
                  names |-> params \cup ConstantNames]

\* faulty variant of SmacImproves: a tie counts as an improvement
SmacImproves_Tie(cost, best_cost) == ~Lt(best_cost, cost)

\* if cost < early_stop_state['best_cost']
SmacImproves(cost, best_cost) == Lt(cost, best_cost)

\* faulty variant of Plateaued: one evaluation too late
Plateaued_Late(n, limit) == n > limit

\* if early_stop_state['iterations_without_improvement'] >= PLATEAU_ITERATIONS
Plateaued(n, limit) == n >= limit

\* the early-stop bookkeeping of objective_function for a new cost
AfterResult(st, cost) ==
    LET updated ==
          IF SmacImproves(Fin(cost), st.best_cost)
          THEN [st EXCEPT !.best_cost = Fin(cost),
                          !.iterations_without_improvement = 0]
          ELSE [st EXCEPT !.iterations_without_improvement = @ + 1]
    IN  IF Plateaued(updated.iterations_without_improvement,
                     PLATEAU_ITERATIONS)
        THEN [updated EXCEPT !.should_stop = TRUE]
        ELSE updated

\* SMAC calls objective_function while budget is left; the call evaluates
\* the configuration and returns its objective
SmacObjective ==
    /\ tpc = "smac_optimize"
    /\ smac.runs < runcount
    /\ ~early_stop_state.should_stop
    /\ iteration_counter' = iteration_counter + 1
    /\ tcalls' = TestConfigCalled(SmacSuggested, iteration_counter + 1)
    /\ \E perf \in PerfValues :
         LET cost == Objective(perf)
         IN  /\ early_stop_state' = AfterResult(early_stop_state, cost)
             /\ evals' = Append(evals, [config |-> SmacSuggested,
                                        cost |-> cost, perf |-> perf])
    /\ smac' = [runs |-> smac.runs + 1, incumbent |-> SolverIncumbent]
    /\ tpc' = "smac_optimize"
    /\ UNCHANGED <<envVars, cfgVars, dpVars, objVars, mainVars, benchVars, gc, drvVars, mtVars,
                   knobs_detail, tuning_method, runcount, PLATEAU_ITERATIONS, hebo,
                   iteration, best_config, best_objective, history_file,
                   best_config_file>>

\* test_config raises inside objective_function (get_conn gave up): SMAC
\* records a crashed run and goes on, or gives up itself, in which case the
\* exception leaves optimize() and _smac
SmacObjectiveRaises ==
    /\ tpc = "smac_optimize"
    /\ smac.runs < runcount
    /\ ~early_stop_state.should_stop
    /\ iteration_counter' = iteration_counter + 1
    /\ tcalls' = TestConfigCalled(SmacSuggested, iteration_counter + 1)
    /\ \E inc \in {smac.incumbent, SolverIncumbent} :
         smac' = [runs |-> smac.runs + 1, incumbent |-> inc]
    /\ tpc' \in {"smac_optimize", "raised"}
    /\ UNCHANGED <<envVars, cfgVars, dpVars, objVars, mainVars, benchVars, gc, drvVars, mtVars,
                   knobs_detail, tuning_method, runcount, PLATEAU_ITERATIONS,
                   early_stop_state, hebo, iteration, best_config,
                   best_objective, history_file, best_config_file, evals>>

\* if early_stop_state['should_stop']: raise EarlyStopSignal(), caught by
\* _smac: incumbent = smac.solver.incumbent
SmacEarlyStop ==
    /\ tpc = "smac_optimize"
    /\ smac.runs < runcount
    /\ early_stop_state.should_stop
    /\ tpc' = "smac_save"
    /\ UNCHANGED <<envVars, cfgVars, dpVars, objVars, mainVars, benchVars, gc, drvVars, mtVars,
                   knobs_detail, tuning_method, runcount, PLATEAU_ITERATIONS,
                   iteration_counter, early_stop_state, smac, hebo,
                   iteration, best_config, best_objective, history_file,
                   best_config_file, evals, tcalls>>

\* the budget is used up: optimize() returns the incumbent
SmacBudgetUsed ==
    /\ tpc = "smac_optimize"
    /\ smac.runs >= runcount
    /\ tpc' = "smac_save"
    /\ UNCHANGED <<envVars, cfgVars, dpVars, objVars, mainVars, benchVars, gc, drvVars, mtVars,
                   knobs_detail, tuning_method, runcount, PLATEAU_ITERATIONS,
                   iteration_counter, early_stop_state, smac, hebo, iteration,
                   best_config, best_objective, history_file,
                   best_config_file, evals, tcalls>>

\* dict(incumbent) of an incumbent SMAC never set raises TypeError
SmacSaveRaises ==
    /\ tpc = "smac_save"
    /\ smac.incumbent = None
    /\ tpc' = "raised_type_error"
    /\ UNCHANGED <<envVars, cfgVars, dpVars, objVars, mainVars, benchVars, gc, drvVars, mtVars,
                   knobs_detail, tuning_method, runcount, PLATEAU_ITERATIONS,
                   iteration_counter, early_stop_state, smac, hebo,
                   iteration, best_config, best_objective, history_file,
                   best_config_file, evals, tcalls>>

\* best_config.json, then smac_his/<workload>_smac.json: the whole
\* RunHistory of SMAC as one JSON document, written once
SmacSave ==
    /\ tpc = "smac_save"
    /\ smac.incumbent # None
    /\ best_config_file' =
         [iterations |-> iteration_counter,
          early_stopped |-> early_stop_state.should_stop,
          best_cost |-> early_stop_state.best_cost,
          configuration |-> smac.incumbent]
    /\ history_file' = <<[kind |-> "json_document", runs |-> smac.runs]>>
    /\ tpc' = "done"
    /\ UNCHANGED <<envVars, cfgVars, dpVars, objVars, mainVars, benchVars, gc, drvVars, mtVars,
                   knobs_detail, tuning_method, runcount, PLATEAU_ITERATIONS,
                   iteration_counter, early_stop_state, smac, hebo,
                   iteration, best_config, best_objective, evals, tcalls>>

tune_smac ==
    \/ SmacObjective \/ SmacObjectiveRaises \/ SmacEarlyStop
    \/ SmacBudgetUsed \/ SmacSaveRaises \/ SmacSave

----------------------------------------------------------------------------
(* Tuner._hebo *)

\* faulty variant of HeboImproves: a tie replaces the incumbent
HeboImproves_Tie(objective, best) == ~Lt(best, objective)

\* if objective < best_objective
HeboImproves(objective, best) == Lt(objective, best)

\* faulty variant of FirstConfig: iteration 0 evaluates a suggestion
FirstConfig_Suggested == Config(0, "min")

\* the configuration iteration 0 evaluates
FirstConfig == default_config

\* suggestion.iloc[0].to_dict() with the constant knobs added back from
\* detail['min']
Suggested(t) == Config(t, "min")

\* the record json.dump writes for iteration 0
DefaultLine(config, objective, perf) ==
    [iteration |-> 0, config |-> config, cost |-> objective,
     performance |-> perf, note |-> "DEFAULT_CONFIG"]

\* faulty variant of IterationLine: the raw performance is stored as cost
IterationLine_Perf(config, objective, perf) ==
    [config |-> config, cost |-> perf]

\* the record json.dump writes for an iteration of the loop
IterationLine(config, objective, perf) ==
    [config |-> config, cost |-> objective]

observe(x, objective) == [op |-> "observe", x |-> x, y |-> objective]
suggest(x) == [op |-> "suggest", x |-> x, y |-> 0]

\* if not params: return the defaults
HeboNoParams ==
    /\ tpc = "hebo_default"
    /\ params = {}
    /\ tpc' = "done"
    /\ UNCHANGED <<envVars, cfgVars, dpVars, objVars, mainVars, benchVars, gc, drvVars, mtVars,
                   knobs_detail, tuning_method, runcount, PLATEAU_ITERATIONS,
                   iteration_counter, early_stop_state, smac, hebo,
                   iteration, best_config, best_objective, history_file,
                   best_config_file, evals, tcalls>>

\* iteration 0: the default configuration is evaluated, observed, made the
\* incumbent and written as the first line of a fresh runhistory.jsonl
HeboDefault ==
    /\ tpc = "hebo_default"
    /\ params # {}
    /\ tcalls' = TestConfigCalled(FirstConfig, 0)
    /\ \E default_perf \in PerfValues :
         LET default_objective == Objective(default_perf)
         IN  /\ hebo' = Append(hebo, observe(Tunable(FirstConfig),
                                             default_objective))
             /\ best_config' = FirstConfig
             /\ best_objective' = Fin(default_objective)
             /\ history_file' = <<DefaultLine(FirstConfig, default_objective,
                                              default_perf)>>
             /\ evals' = Append(evals, [config |-> FirstConfig,
                                        cost |-> default_objective,
                                        perf |-> default_perf])
    /\ tpc' = "hebo_loop"
    /\ UNCHANGED <<envVars, cfgVars, dpVars, objVars, mainVars, benchVars, gc, drvVars, mtVars,
                   knobs_detail, tuning_method, runcount, PLATEAU_ITERATIONS,
                   iteration_counter, early_stop_state, smac, iteration,
                   best_config_file>>

\* test_config or hebo.observe raises in iteration 0, outside the try: the
\* exception leaves _hebo
HeboDefaultRaises ==
    /\ tpc = "hebo_default"
    /\ params # {}
    /\ tcalls' = TestConfigCalled(FirstConfig, 0)
    /\ tpc' = "raised"
    /\ UNCHANGED <<envVars, cfgVars, dpVars, objVars, mainVars, benchVars, gc, drvVars, mtVars,
                   knobs_detail, tuning_method, runcount, PLATEAU_ITERATIONS,
                   iteration_counter, early_stop_state, smac, hebo,
                   iteration, best_config, best_objective, history_file,
                   best_config_file, evals>>

\* one pass of for iteration in range(runcount)
HeboIteration ==
    /\ tpc = "hebo_loop"
    /\ iteration < runcount
    /\ iteration_counter' = iteration + 1
    /\ \E t \in TunableValues, perf \in PerfValues :
         LET config_dict == Suggested(t)
             objective == Objective(perf)
         IN  /\ tcalls' = TestConfigCalled(config_dict, iteration + 1)
             /\ hebo' = hebo \o <<suggest(t),
                                  observe(Tunable(config_dict), objective)>>
             /\ history_file' =
                  Append(history_file,
                         IterationLine(config_dict, objective, perf))
             /\ evals' = Append(evals, [config |-> config_dict,
                                        cost |-> objective, perf |-> perf])
             /\ IF HeboImproves(Fin(objective), best_objective)
                THEN /\ best_objective' = Fin(objective)
                     /\ best_config' = config_dict
                ELSE UNCHANGED <<best_objective, best_config>>
    /\ iteration' = iteration + 1
    /\ tpc' = "hebo_loop"
    /\ UNCHANGED <<envVars, cfgVars, dpVars, objVars, mainVars, benchVars, gc, drvVars, mtVars,
                   knobs_detail, tuning_method, runcount, PLATEAU_ITERATIONS,
                   early_stop_state, smac, best_config_file>>

\* hebo.suggest raises: except Exception ends the loop
HeboSuggestRaises ==
    /\ tpc = "hebo_loop"
    /\ iteration < runcount
    /\ iteration_counter' = iteration + 1
    /\ tpc' = "hebo_save"
    /\ UNCHANGED <<envVars, cfgVars, dpVars, objVars, mainVars, benchVars, gc, drvVars, mtVars,
                   knobs_detail, tuning_method, runcount, PLATEAU_ITERATIONS,
                   early_stop_state, smac, hebo, iteration, best_config,
                   best_objective, history_file, best_config_file, evals,
                   tcalls>>

\* test_config or hebo.observe raises after the suggestion: except
\* Exception ends the loop before the line is written
HeboEvaluateRaises ==
    /\ tpc = "hebo_loop"
    /\ iteration < runcount
    /\ iteration_counter' = iteration + 1
    /\ \E t \in TunableValues :
         /\ hebo' = Append(hebo, suggest(t))
         /\ tcalls' = TestConfigCalled(Suggested(t), iteration + 1)
    /\ tpc' = "hebo_save"
    /\ UNCHANGED <<envVars, cfgVars, dpVars, objVars, mainVars, benchVars, gc, drvVars, mtVars,
                   knobs_detail, tuning_method, runcount, PLATEAU_ITERATIONS,
                   early_stop_state, smac, iteration, best_config,
                   best_objective, history_file, best_config_file, evals>>

\* range(runcount) is exhausted
HeboLoopEnd ==
    /\ tpc = "hebo_loop"
    /\ iteration >= runcount
    /\ tpc' = "hebo_save"
    /\ UNCHANGED <<envVars, cfgVars, dpVars, objVars, mainVars, benchVars, gc, drvVars, mtVars,
                   knobs_detail, tuning_method, runcount, PLATEAU_ITERATIONS,
                   iteration_counter, early_stop_state, smac, hebo,
                   iteration, best_config, best_objective, history_file,
                   best_config_file, evals, tcalls>>

\* best_config.json
HeboSave ==
    /\ tpc = "hebo_save"
    /\ best_config_file' =
         [iterations |-> iteration_counter,
          best_cost |-> best_objective,
          best_performance |-> 0 - best_objective.v,
          configuration |-> best_config]
    /\ tpc' = "done"
    /\ UNCHANGED <<envVars, cfgVars, dpVars, objVars, mainVars, benchVars, gc, drvVars, mtVars,
                   knobs_detail, tuning_method, runcount, PLATEAU_ITERATIONS,
                   iteration_counter, early_stop_state, smac, hebo,
                   iteration, best_config, best_objective, history_file,
                   evals, tcalls>>

tune_hebo ==
    \/ HeboNoParams \/ HeboDefault \/ HeboDefaultRaises \/ HeboIteration
    \/ HeboSuggestRaises \/ HeboEvaluateRaises \/ HeboLoopEnd \/ HeboSave

----------------------------------------------------------------------------
(* Tuner.tune *)

\* route to _hebo or _smac by tuning_method
tune ==
    /\ tpc = "tune"
    /\ tpc' = IF tuning_method = "HEBO" THEN "hebo_default"
                                        ELSE "smac_optimize"
    /\ UNCHANGED <<envVars, cfgVars, dpVars, objVars, mainVars, benchVars, gc, drvVars, mtVars,
                   knobs_detail, tuning_method, runcount, PLATEAU_ITERATIONS,
                   iteration_counter, early_stop_state, smac, hebo,
                   iteration, best_config, best_objective, history_file,
                   best_config_file, evals, tcalls>>

----------------------------------------------------------------------------
(* main.py: the orchestrator, one tuning session per discovered workload *)

\* A file name is the sequence of its dot-separated parts, the first being
\* the number after the benchmark prefix: <<2, "wg">> is job_2.wg,
\* <<2, "wg", "bak">> is job_2.wg.bak and <<2, "wg", "txt">> is job_2.wg.txt.

\* os.path.splitext(fname)[0]: the name up to its last extension
Stem(fname) ==
    IF Len(fname) > 1 THEN SubSeq(fname, 1, Len(fname) - 1) ELSE fname

\* perf_file = os.path.join(perf_dir, f"{workload_name}.txt"), where
\* workload_name is the basename of the workload path set by the orchestrator
RecordFile(workload) == Append(workload, "txt")

\* a faulty scan: the names of the record files are kept with their extension
get_completed_workloads_Full(perf_dir) == perf_dir

\* the set of the names, without their extension, of the files of perf_dir
get_completed_workloads(perf_dir) == {Stem(fname) : fname \in perf_dir}

\* a faulty filter: only the name without its extension is looked up
Remains_StemOnly(w, completed) == Stem(w) \notin completed

\* the filter of the resume support: neither the name nor the name without
\* its extension is in the completed set (the names have no directory part)
Remains(w, completed) == Stem(w) \notin completed /\ w \notin completed

\* natural_keys: the number first, then the rest of the name
Before(a, b) == a[1] < b[1] \/ (a[1] = b[1] /\ Len(a) < Len(b))

RECURSIVE natural_sort(_)
natural_sort(items) ==
    IF items = {} THEN <<>>
    ELSE LET first == CHOOSE a \in items :
                          \A b \in items \ {a} : Before(a, b)
         IN  <<first>> \o natural_sort(items \ {first})

\* workloads[:13]
Head13(workloads) ==
    SubSeq(workloads, 1,
           IF Len(workloads) < BatchSize THEN Len(workloads) ELSE BatchSize)

\* the orchestrator before it is started
MainOff == [pc |-> "off", run |-> 0, dir |-> {}, perf_dir |-> {},
            total_workloads |-> 0, workloads_to_tune |-> <<>>, idx |-> 0,
            skipped |-> {}, perf_at_start |-> {}, tuned |-> <<>>,
            faults |-> 0, crashed |-> {}, successful |-> 0, failed |-> 0]

\* what one run_tuning call does to the performance-record directory: the
\* first finished evaluation of the workload creates its record file
Outcomes == {[raised |-> FALSE, recorded |-> TRUE],
             [raised |-> FALSE, recorded |-> FALSE],
             [raised |-> TRUE, recorded |-> TRUE],
             [raised |-> TRUE, recorded |-> FALSE]}

\* lines 42-78: discover, sort, drop the completed workloads, take the
\* subset to tune, and leave at once when nothing remains
MainDiscover ==
    /\ main.pc = "start"
    /\ LET workloads == natural_sort(main.dir)
           total == Len(workloads)
           completed == get_completed_workloads(main.perf_dir)
           remaining == SelectSeq(workloads,
                                  LAMBDA w : Remains(w, completed))
           subset == IF total < SmallSetLimit THEN remaining
                                              ELSE Head13(remaining)
       IN  main' = [main EXCEPT
                      !.pc = IF subset = <<>> THEN "done" ELSE "loop",
                      !.total_workloads = total,
                      !.workloads_to_tune = subset,
                      !.idx = 0,
                      !.skipped = {w \in main.dir : ~Remains(w, completed)},
                      !.perf_at_start = main.perf_dir,
                      !.tuned = <<>>,
                      !.successful = 0,
                      !.failed = 0]
    /\ UNCHANGED <<envVars, cfgVars, dpVars, objVars, benchVars, tunerVars, gc, drvVars,
                   mtVars>>

\* lines 84-108: one pass of the loop; an exception of run_tuning ends the
\* loop for a large workload set and is passed over for a small one
MainTune ==
    /\ main.pc = "loop"
    /\ main.idx < Len(main.workloads_to_tune)
    /\ \E o \in Outcomes :
         LET workload == main.workloads_to_tune[main.idx + 1]
             fault == o.raised \/ ~o.recorded
         IN  /\ fault => main.faults < MaxFaults
             /\ main' = [main EXCEPT
                          !.faults = IF fault THEN @ + 1 ELSE @,
                          !.perf_dir = IF o.recorded
                                       THEN @ \cup {RecordFile(workload)}
                                       ELSE @,
                          !.tuned = Append(@, workload),
                          !.idx = @ + 1,
                          !.successful = IF o.raised THEN @ ELSE @ + 1,
                          !.failed = IF o.raised THEN @ + 1 ELSE @,
                          !.pc = IF o.raised
                                    /\ main.total_workloads >= SmallSetLimit
                                 THEN "done" ELSE "loop"]
    /\ UNCHANGED <<envVars, cfgVars, dpVars, objVars, benchVars, tunerVars, gc, drvVars,
                   mtVars>>

\* the process dies in the middle of a workload, before or after the first
\* evaluation has created the record file
MainCrash ==
    /\ main.pc = "loop"
    /\ main.idx < Len(main.workloads_to_tune)
    /\ main.faults < MaxFaults
    /\ \E recorded \in BOOLEAN :
         LET workload == main.workloads_to_tune[main.idx + 1]
         IN  main' = [main EXCEPT
                        !.perf_dir = IF recorded
                                     THEN @ \cup {RecordFile(workload)}
                                     ELSE @,
                        !.tuned = Append(@, workload),
                        !.faults = @ + 1,
                        !.crashed = @ \cup {[workload |-> workload,
                                              run |-> main.run,
                                              recorded |-> recorded]},
                        !.pc = "crashed"]
    /\ UNCHANGED <<envVars, cfgVars, dpVars, objVars, benchVars, tunerVars, gc, drvVars,
                   mtVars>>

\* lines 110 on: the loop is exhausted, the summary is logged
MainSummary ==
    /\ main.pc = "loop"
    /\ main.idx = Len(main.workloads_to_tune)
    /\ main' = [main EXCEPT !.pc = "done"]
    /\ UNCHANGED <<envVars, cfgVars, dpVars, objVars, benchVars, tunerVars, gc, drvVars,
                   mtVars>>

\* the orchestrator is started again over the same two directories
MainRerun ==
    /\ main.pc \in {"done", "crashed"}
    /\ main.run < MaxMainRuns
    /\ main' = [main EXCEPT !.pc = "start", !.run = @ + 1]
    /\ UNCHANGED <<envVars, cfgVars, dpVars, objVars, benchVars, tunerVars, gc, drvVars,
                   mtVars>>

----------------------------------------------------------------------------
(* BenchBaseRunner.run_benchmark: the transactional executor *)

\* A file of the results directory: the harness run that wrote it, whether
\* its name ends in .summary.json, and whether it parses as JSON with the
\* key "Throughput (requests/second)".
ResultFile(n, kind, ok) == [run |-> n, kind |-> kind, ok |-> ok]

\* what one harness run can leave in the results directory: its log (the
\* redirection of line 74 creates it), and possibly a summary file
HarnessOutputs(n) ==
    {{ResultFile(n, "raw", FALSE)}}
        \cup {{ResultFile(n, "raw", FALSE), ResultFile(n, "summary", ok)} :
                  ok \in BOOLEAN}

\* the value run_benchmark returns: 0.0, or the throughput a harness run
\* wrote into its summary
NoThroughput == [value |-> "0.0", run |-> 0]
ThroughputOf(file) == [value |-> "throughput", run |-> file.run]

\* parse_summary_json: any failure returns 0.0
parse_summary_json(file) == IF file.ok THEN ThroughputOf(file) ELSE NoThroughput

BenchIdle == [run |-> 0, state |-> 0, dir |-> {}, summary_json |-> None,
              archive |-> {}, cleaned |-> FALSE, throughput |-> None]

\* lines 82-91: the harness exits non-zero; run_benchmark returns 0.0 at
\* once and leaves the results directory as the harness left it
BenchHarnessError ==
    /\ bench.run < MaxBenchRuns
    /\ \E out \in HarnessOutputs(bench.run + 1) :
         bench' = [bench EXCEPT !.run = @ + 1,
                                !.state = 1,
                                !.dir = @ \cup out,
                                !.cleaned = FALSE,
                                !.throughput = NoThroughput]
    /\ UNCHANGED <<envVars, cfgVars, dpVars, objVars, mainVars, tunerVars, gc,
                   drvVars, mtVars>>

\* lines 82-100 and 108-152: the harness exits 0 and the results directory
\* holds no file ending in .summary.json; everything but summary.json and
\* the archive is deleted, and 0.0 is returned
BenchNoSummary ==
    /\ bench.run < MaxBenchRuns
    /\ \E out \in HarnessOutputs(bench.run + 1) :
         /\ \A f \in bench.dir \cup out : f.kind # "summary"
         /\ bench' = [bench EXCEPT !.run = @ + 1,
                                   !.state = 0,
                                   !.dir = {},
                                   !.cleaned = TRUE,
                                   !.throughput = NoThroughput]
    /\ UNCHANGED <<envVars, cfgVars, dpVars, objVars, mainVars, tunerVars, gc,
                   drvVars, mtVars>>

\* lines 82-106 and 108-168: the harness exits 0; every file ending in
\* .summary.json is archived and copied onto summary.json, the one that
\* os.listdir yields last staying there; the other files are deleted and
\* summary.json is parsed
BenchParse ==
    /\ bench.run < MaxBenchRuns
    /\ \E out \in HarnessOutputs(bench.run + 1) :
         LET listed == bench.dir \cup out
             summaries == {f \in listed : f.kind = "summary"}
         IN  \E last \in summaries :
               bench' = [bench EXCEPT
                           !.run = @ + 1,
                           !.state = 0,
                           !.dir = {},
                           !.summary_json = last,
                           !.archive = @ \cup summaries,
                           !.cleaned = TRUE,
                           !.throughput = parse_summary_json(last)]
    /\ UNCHANGED <<envVars, cfgVars, dpVars, objVars, mainVars, tunerVars, gc,
                   drvVars, mtVars>>

run_benchmark == BenchHarnessError \/ BenchNoSummary \/ BenchParse

----------------------------------------------------------------------------
(* Specifications *)

InitIdle ==
    /\ autoConf = [k \in Knobs |-> "unset"]
    /\ gc = GcIdle
    /\ pc = "idle"
    /\ iteration_count = 0
    /\ knobIdx = 1
    /\ success = TRUE
    /\ rs = RsIdle
    /\ flag = "none"
    /\ cur_state = NoMetrics
    /\ y = None
    /\ result = None
    /\ events = <<>>
    /\ logs = NoLogs
    /\ ret = RetIdle
    /\ startIdx = 0
    /\ joinIdx = 0
    /\ time_stamp = [k \in Workers |-> None]
    /\ wpc = [w \in Workers |-> "none"]
    /\ wi = [w \in Workers |-> 0]
    /\ wstats = [w \in Workers |-> NoStats]
    /\ writes = [w \in Workers |-> [k \in Workers |-> 0]]
    /\ reads = [w \in Workers |-> {}]
    /\ wconn = [w \in Workers |-> None]
    /\ wused = [w \in Workers |-> {}]
    /\ wfatal = {}
    /\ dp = DpIdle
    /\ heap = HeapIdle
    /\ temp_config = "none"

\* a tuning session with the default thread count: the driver is
\* constructed for one tool and workload; the server may be up or down
Init ==
    /\ bench = BenchIdle
    /\ main = MainOff
    /\ serverUp \in BOOLEAN
    /\ tool \in Tools
    /\ thread_num = DefaultThreads
    /\ num_queries \in (IF tool = "dwg" THEN 0..MaxSessionQueries ELSE {0})
    /\ InitIdle
    /\ TunerIdle

Next ==
    \/ test_config
    \/ get_conn
    \/ change_knob
    \/ restart_db
    \/ fetch_inner_metrics
    \/ multi_thread_run
    \/ \E w \in Workers : one_thread_given_queries(w)

Spec == Init /\ [][Next]_vars

\* the OLAP executor with any number of threads: test_config of a dwg
\* session has applied the knobs and fetched the counters, and run has just
\* created its threads and the results dict
InitOLAP ==
    /\ bench = BenchIdle
    /\ main = MainOff
    /\ serverUp = TRUE
    /\ autoConf = [k \in Knobs |-> "good"]
    /\ tool = "dwg"
    /\ thread_num \in 1..MaxThreads
    /\ num_queries \in 0..MaxQueries
    /\ gc = GcIdle
    /\ pc = "mt_start"
    /\ iteration_count = 1
    /\ knobIdx = NumKnobs + 1
    /\ success = TRUE
    /\ rs = [stop |-> "ok", start |-> "ok", retry |-> "none",
             purges |-> 0, retries |-> 0, result |-> "true"]
    /\ flag = "true"
    /\ cur_state \in {FetchResult(failed) : failed \in FailPoints}
    /\ y = None
    /\ result = None
    /\ events = [i \in 1..NumKnobs |-> "set_ok"]
                    \o <<"restart", "stop_ok", "start_ok", "restart_ret",
                         "change_knob_ret", "fetch", "workload">>
    /\ logs = NoLogs
    /\ ret = [status |-> "running", y |-> None, line |-> None]
    /\ startIdx = 0
    /\ joinIdx = 0
    /\ time_stamp = [k \in Workers |-> None]
    /\ wpc = [w \in Workers |-> IF w < thread_num THEN "new" ELSE "none"]
    /\ wi = [w \in Workers |-> 0]
    /\ wstats = [w \in Workers |-> NoStats]
    /\ writes = [w \in Workers |-> [k \in Workers |-> 0]]
    /\ reads = [w \in Workers |-> {}]
    /\ wconn = [w \in Workers |-> None]
    /\ wused = [w \in Workers |-> {}]
    /\ wfatal = {}
    /\ dp = DpIdle
    /\ heap = [HeapIdle EXCEPT !.copy = Mapping({})]
    /\ temp_config = "copy"
    /\ TunerIdle

\* run and its workers under every interleaving, the return of test_config,
\* and the tuner's next call up to the point where it has applied the next
\* configuration and fetched the counters
NextOLAP ==
    \/ multi_thread_run
    \/ \E w \in Workers : one_thread_given_queries(w)
    \/ TestConfigRecord \/ TestConfigCall \/ TestConfigRaise
    \/ get_conn
    \/ change_knob
    \/ restart_db
    \/ fetch_inner_metrics

SpecOLAP == InitOLAP /\ [][NextOLAP]_vars

\* get_conn on its own, for every max_retries, server state and override
\* file
InitConn ==
    /\ bench = BenchIdle
    /\ main = MainOff
    /\ serverUp \in BOOLEAN
    /\ autoConf \in [Knobs -> AutoConfValues]
    /\ tool = "dwg"
    /\ thread_num = DefaultThreads
    /\ num_queries = 0
    /\ \E m \in 0..MaxRetriesArg : gc = get_conn_enter(m)
    /\ pc = "idle"
    /\ iteration_count = MaxIter
    /\ knobIdx = 1
    /\ success = TRUE
    /\ rs = RsIdle
    /\ flag = "none"
    /\ cur_state = NoMetrics
    /\ y = None
    /\ result = None
    /\ events = <<>>
    /\ logs = NoLogs
    /\ ret = RetIdle
    /\ startIdx = 0
    /\ joinIdx = 0
    /\ time_stamp = [k \in Workers |-> None]
    /\ wpc = [w \in Workers |-> "none"]
    /\ wi = [w \in Workers |-> 0]
    /\ wstats = [w \in Workers |-> NoStats]
    /\ writes = [w \in Workers |-> [k \in Workers |-> 0]]
    /\ reads = [w \in Workers |-> {}]
    /\ wconn = [w \in Workers |-> None]
    /\ wused = [w \in Workers |-> {}]
    /\ wfatal = {}
    /\ dp = DpIdle
    /\ heap = HeapIdle
    /\ temp_config = "none"
    /\ TunerIdle

NextConn == get_conn

SpecConn == InitConn /\ [][NextConn]_vars

\* data_pre on its own, for every thread count and for workload files
\* below, at and above the limit
FileLens == 0..MaxFileQueries \cup {QueryLimit, QueryLimit + 1}

InitPart ==
    /\ bench = BenchIdle
    /\ main = MainOff
    /\ serverUp = TRUE
    /\ tool = "dwg"
    /\ thread_num \in 1..MaxThreads
    /\ num_queries = 0
    /\ autoConf = [k \in Knobs |-> "unset"]
    /\ gc = GcIdle
    /\ pc = "tc_dispatch"
    /\ iteration_count = 1
    /\ knobIdx = 1
    /\ success = TRUE
    /\ rs = RsIdle
    /\ flag = "none"
    /\ cur_state = NoMetrics
    /\ y = None
    /\ result = None
    /\ events = <<>>
    /\ logs = NoLogs
    /\ ret = RetIdle
    /\ startIdx = 0
    /\ joinIdx = 0
    /\ time_stamp = [k \in Workers |-> None]
    /\ wpc = [w \in Workers |-> "none"]
    /\ wi = [w \in Workers |-> 0]
    /\ wstats = [w \in Workers |-> NoStats]
    /\ writes = [w \in Workers |-> [k \in Workers |-> 0]]
    /\ reads = [w \in Workers |-> {}]
    /\ wconn = [w \in Workers |-> None]
    /\ wused = [w \in Workers |-> {}]
    /\ wfatal = {}
    /\ \E n \in FileLens : dp = [DpIdle EXCEPT !.pc = "read", !.file_len = n]
    /\ heap = [HeapIdle EXCEPT !.copy = Mapping({})]
    /\ temp_config = "copy"
    /\ TunerIdle

NextPart == data_pre

SpecPart == InitPart /\ [][NextPart]_vars

----------------------------------------------------------------------------
(* Specification of the parsing of a workload file: data_pre on every short
   text *)

\* the texts of at most MaxTextLen characters
Texts == UNION {[1..n -> FileChars] : n \in 0..MaxTextLen}

InitSplit ==
    /\ bench = BenchIdle
    /\ main = MainOff
    /\ serverUp = TRUE
    /\ tool = "dwg"
    /\ thread_num \in 1..MaxThreads
    /\ num_queries = 0
    /\ autoConf = [k \in Knobs |-> "unset"]
    /\ gc = GcIdle
    /\ pc = "tc_dispatch"
    /\ iteration_count = 1
    /\ knobIdx = 1
    /\ success = TRUE
    /\ rs = RsIdle
    /\ flag = "none"
    /\ cur_state = NoMetrics
    /\ y = None
    /\ result = None
    /\ events = <<>>
    /\ logs = NoLogs
    /\ ret = RetIdle
    /\ startIdx = 0
    /\ joinIdx = 0
    /\ time_stamp = [k \in Workers |-> None]
    /\ wpc = [w \in Workers |-> "none"]
    /\ wi = [w \in Workers |-> 0]
    /\ wstats = [w \in Workers |-> NoStats]
    /\ writes = [w \in Workers |-> [k \in Workers |-> 0]]
    /\ reads = [w \in Workers |-> {}]
    /\ wconn = [w \in Workers |-> None]
    /\ wused = [w \in Workers |-> {}]
    /\ wfatal = {}
    /\ \E text \in Texts :
         dp = [DpIdle EXCEPT !.pc = "split", !.wg_file = text]
    /\ heap = [HeapIdle EXCEPT !.copy = Mapping({})]
    /\ temp_config = "copy"
    /\ TunerIdle

NextSplit == DataPreSplit \/ DataPreAssign \/ DataPreReturn

SpecSplit == InitSplit /\ [][NextSplit]_vars

----------------------------------------------------------------------------
(* Specification of a tuning run: Tuner.tune with either strategy *)

\* the default of early_stop_plateau for the strategy that does not read it
DefaultPlateau == 50

InitTune ==
    /\ bench = BenchIdle
    /\ main = MainOff
    /\ serverUp = TRUE
    /\ tool = "dwg"
    /\ thread_num = DefaultThreads
    /\ num_queries = 0
    /\ InitIdle
    /\ tuning_method \in {"SMAC", "HEBO", "OTHER"}
    /\ knobs_detail \in (IF tuning_method = "HEBO"
                         THEN {OneTunable, NoneTunable}
                         ELSE {OneTunable})
    /\ runcount \in (IF tuning_method = "HEBO" THEN 0..MaxHeboRuns
                                               ELSE 1..MaxSmacRuns)
    /\ PLATEAU_ITERATIONS \in (IF tuning_method = "HEBO"
                               THEN {DefaultPlateau}
                               ELSE 0..MaxPlateau)
    /\ tpc = "tune"
    /\ iteration_counter = 0
    /\ early_stop_state = [best_cost |-> Inf,
                           iterations_without_improvement |-> 0,
                           should_stop |-> FALSE]
    /\ smac = [runs |-> 0, incumbent |-> None]
    /\ hebo = <<>>
    /\ iteration = 0
    /\ best_config = None
    /\ best_objective = Inf
    /\ history_file = <<>>
    /\ best_config_file = None
    /\ evals = <<>>
    /\ tcalls = <<>>

NextTune == tune \/ tune_smac \/ tune_hebo

SpecTune == InitTune /\ [][NextTune]_vars

----------------------------------------------------------------------------
(* Specification of short tuning runs over every knob catalogue *)

InitKnobs ==
    /\ bench = BenchIdle
    /\ main = MainOff
    /\ serverUp = TRUE
    /\ knobs_detail \in [Knobs -> KnobDetails]
    /\ tool = "dwg"
    /\ thread_num = DefaultThreads
    /\ num_queries = 0
    /\ InitIdle
    /\ tuning_method \in {"SMAC", "HEBO"}
    /\ runcount \in (IF tuning_method = "HEBO" THEN 0..MaxKnobRuns
                                               ELSE 1..(MaxKnobRuns + 1))
    /\ PLATEAU_ITERATIONS \in (IF tuning_method = "HEBO"
                               THEN {DefaultPlateau}
                               ELSE {0, DefaultPlateau})
    /\ tpc = "tune"
    /\ iteration_counter = 0
    /\ early_stop_state = [best_cost |-> Inf,
                           iterations_without_improvement |-> 0,
                           should_stop |-> FALSE]
    /\ smac = [runs |-> 0, incumbent |-> None]
    /\ hebo = <<>>
    /\ iteration = 0
    /\ best_config = None
    /\ best_objective = Inf
    /\ history_file = <<>>
    /\ best_config_file = None
    /\ evals = <<>>
    /\ tcalls = <<>>

NextKnobs == tune \/ tune_smac \/ tune_hebo

SpecKnobs == InitKnobs /\ [][NextKnobs]_vars

----------------------------------------------------------------------------
(* Specification of the orchestrator: runs over one workload directory *)

\* the numbers of workload files: the small ones and those around the two
\* thresholds
WorkloadCounts ==
    0..MaxWorkloads
        \cup {SmallSetLimit - 1, SmallSetLimit, BatchSize, BatchSize + 1}

\* job_1.wg .. job_n.wg
Plain(n) == {<<i, "wg">> : i \in 1..n}

\* the workload directories: n workload files, and for the small ones
\* possibly a second file with the benchmark prefix kept beside job_1.wg
WorkloadDirs ==
    {Plain(n) : n \in WorkloadCounts}
        \cup {Plain(n) \cup {<<1, "wg", "bak">>} : n \in 1..MaxWorkloads}

InitMain ==
    /\ bench = BenchIdle
    /\ serverUp = TRUE
    /\ tool = "dwg"
    /\ thread_num = DefaultThreads
    /\ num_queries = 0
    /\ InitIdle
    /\ TunerIdle
    /\ \E d \in WorkloadDirs :
         main = [MainOff EXCEPT !.pc = "start", !.run = 1, !.dir = d]

NextMain ==
    \/ MainDiscover
    \/ MainTune
    \/ MainCrash
    \/ MainSummary
    \/ MainRerun

SpecMain == InitMain /\ [][NextMain]_vars

----------------------------------------------------------------------------
(* Specification of the transactional executor: the run_benchmark calls of
   the iterations of one workload *)

InitBench ==
    /\ main = MainOff
    /\ bench = BenchIdle
    /\ serverUp = TRUE
    /\ tool = "benchbase"
    /\ thread_num = DefaultThreads
    /\ num_queries = 0
    /\ InitIdle
    /\ TunerIdle

NextBench == run_benchmark

SpecBench == InitBench /\ [][NextBench]_vars

----------------------------------------------------------------------------
(* Properties *)

Count(seq, e) == LET Is(x) == x = e IN Len(SelectSeq(seq, Is))

RealTools == {"dwg", "benchbase"}

InvalidResult ==
    [avg_time_per_query |-> Frac(LARGE_INVALID_LATENCY, 1),
     throughput_qps |-> Zero]

\* run has aggregated and returned its dict to test_config
RunReturned == pc = "tc_record" /\ tool = "dwg"

\* C1: when run returns and the record of some worker in the results map
\* counts at least one per-query error, the returned dict has
\* throughput_qps = 0 and avg_time_per_query = 1e9, whatever the number of
\* workers and whichever queries failed.
C1_ErrorInvalidates ==
    (RunReturned /\ \E k \in Threads :
         time_stamp[k] # None /\ time_stamp[k].error_count > 0)
      => result = InvalidResult

\* C1 witness: two workers, one recorded an error, the other recorded a
\* successful query, and the returned dict is the invalid one.
C1_Witness ==
    /\ RunReturned
    /\ thread_num = 2
    /\ time_stamp[0] # None /\ time_stamp[0].error_count > 0
    /\ time_stamp[1] # None /\ time_stamp[1].value > 0
    /\ time_stamp[1].error_count = 0
    /\ result = InvalidResult

\* C2 (as claimed): when run returns and some worker hit a fatal exception,
\* the returned dict has throughput_qps = 0 and avg_time_per_query = 1e9.
C2_FatalInvalidates ==
    (RunReturned /\ wfatal # {}) => result = InvalidResult

\* C3: get_conn returns at the first attempt that succeeds; it calls
\* remove_auto_conf only after max_retries failed attempts, at most once,
\* and makes exactly one attempt after it; it raises only when that final
\* attempt fails; it never makes more than max_retries + 1 attempts.
C3_GetConnRetry ==
    LET n == Len(gc.log) IN
    /\ n <= gc.max_retries + 1
    /\ \A i \in 1..(n - 1) : gc.log[i] = FALSE
    /\ gc.pc = "ret" => n >= 1 /\ gc.log[n] = TRUE
    /\ gc.purgeAt \in {<<>>, <<gc.max_retries>>}
    /\ n > gc.max_retries => gc.purgeAt = <<gc.max_retries>>
    /\ (gc.pc = "ret" /\ n <= gc.max_retries) => gc.purgeAt = <<>>
    /\ gc.pc = "raise" =>
         /\ n = gc.max_retries + 1
         /\ gc.log[n] = FALSE
         /\ gc.purgeAt = <<gc.max_retries>>
    /\ gc.pc = "final" => n = gc.max_retries /\ gc.purgeAt # <<>>

\* C3 witness: every attempt of the loop failed, the overrides were purged,
\* and the one further attempt returned the connection.
C3_Witness ==
    /\ gc.pc = "ret"
    /\ gc.max_retries = 3
    /\ Len(gc.log) = 4
    /\ gc.purgeAt = <<3>>

\* C4: change_knob returns true exactly when every knob's SET succeeded and
\* restart_db returned true; once a SET has failed, restart_db is not
\* called in that call, and the call returns false.
C4_ChangeKnobResult ==
    /\ Count(events, "set_fail") > 0 =>
         rs = RsIdle /\ Count(events, "restart") = 0 /\ flag # "true"
    /\ flag # "none" =>
         (flag = "true" <=> /\ Count(events, "set_ok") = NumKnobs
                            /\ rs.result = "true")

\* C4 witness: one SET succeeded, another failed, and change_knob returned
\* false.
C4_Witness ==
    /\ flag = "false"
    /\ Count(events, "set_ok") > 0
    /\ Count(events, "set_fail") > 0

\* C5: restart_db stops, then starts; a non-zero exit of the first start is
\* followed by one remove_auto_conf and one retried start; remove_auto_conf
\* is called at most once and never after a successful first start; the
\* result is true exactly when the stop succeeded and the first start or
\* the retry succeeded.
C5_RestartDb ==
    /\ rs.start # "none" => rs.stop = "ok"
    /\ rs.purges <= 1 /\ rs.retries <= 1
    /\ rs.purges = 1 => rs.start = "nonzero"
    /\ rs.retries = 1 => rs.purges = 1
    /\ rs.start = "ok" => rs.purges = 0 /\ rs.retry = "none"
    /\ rs.result # "none" =>
         /\ rs.start = "nonzero" => rs.purges = 1 /\ rs.retries = 1
         /\ rs.result = "true" <=>
               rs.stop = "ok" /\ (rs.start = "ok" \/ rs.retry = "ok")

\* C5 witness: the first start failed, the overrides were purged, the retry
\* succeeded and restart_db returned true.
C5_Witness ==
    /\ rs.result = "true"
    /\ rs.start = "nonzero"
    /\ rs.retry = "ok"
    /\ rs.purges = 1

\* C6 (as claimed): when restart_db returned false in an iteration, the
\* performance test_config records and returns for it is zero.
C6_RestartFailureZero ==
    (ret.status = "returned" /\ tool \in RealTools /\ rs.result = "false")
      => ret.y = Zero /\ ret.line = Zero

\* C7 (as claimed): when the first start after the SETs fails, the iteration
\* calls remove_auto_conf exactly once, retries the start exactly once, and
\* is recorded with zero performance.
C7_BadKnobIteration ==
    (ret.status = "returned" /\ tool \in RealTools /\ rs.start = "nonzero")
      => /\ Count(events, "purge") = 1
         /\ rs.retries = 1
         /\ ret.line = Zero

\* the stage of an iteration an event belongs to (0: remove_auto_conf, which
\* get_conn and restart_db both may call)
SetEvents == {"set_ok", "set_fail", "cast_error"}
RestartEvents == {"restart", "stop_ok", "stop_fail", "start_ok",
                  "start_nonzero", "start_timeout", "retry_ok", "retry_fail",
                  "restart_ret"}

Stage(e) ==
    IF e \in SetEvents THEN 1
    ELSE IF e \in RestartEvents THEN 2
    ELSE IF e = "change_knob_ret" THEN 3
    ELSE IF e = "fetch" THEN 4
    ELSE IF e = "workload" THEN 5
    ELSE 0

IsStaged(e) == Stage(e) # 0

\* the events of the iteration so far that belong to a stage, in order
Staged == SelectSeq(events, IsStaged)

\* C8: within an iteration with a real tool the events come in the order
\* knob SETs, restart, return of change_knob, fetch_inner_metrics, workload;
\* the workload starts only after the counters were fetched, and they are
\* fetched only after change_knob has returned.
C8_IterationOrder ==
    tool \in RealTools =>
      LET staged == Staged
          restarts == Count(events, "restart")
          returns == Count(events, "change_knob_ret")
          fetches == Count(events, "fetch")
          workloads == Count(events, "workload")
      IN  /\ \A i \in 1..(Len(staged) - 1) :
               Stage(staged[i]) <= Stage(staged[i + 1])
          /\ restarts <= 1 /\ returns <= 1 /\ fetches <= 1 /\ workloads <= 1
          /\ workloads = 1 => fetches = 1
          /\ fetches = 1 => returns = 1
          /\ restarts = 1 => Count(events, "set_ok") = NumKnobs
          /\ (pc \in {"mt_start", "mt_join", "tc_record"}
                \/ \E w \in Workers : wpc[w] \notin {"none", "done"})
               => workloads = 1

\* C8 witness: a dwg iteration that set every knob, restarted, fetched the
\* counters, ran the workload and returned a positive throughput.
C8_Witness ==
    /\ ret.status = "returned"
    /\ tool = "dwg"
    /\ Count(events, "set_ok") = NumKnobs
    /\ Count(events, "restart") = 1
    /\ Count(events, "fetch") = 1
    /\ Count(events, "workload") = 1
    /\ ret.y.num > 0

\* C9: run aggregates and returns only when every worker has terminated, so
\* outside the start and join loops of run (while the metrics are recorded,
\* and while the next iteration applies its knobs, restarts and fetches) no
\* worker is running.
C9_JoinBeforeAggregate ==
    /\ pc \notin {"mt_start", "mt_join"} =>
         \A w \in Workers : wpc[w] \in {"none", "done"}
    /\ result # None => \A w \in Threads : wpc[w] = "done"

\* C9 witness: after a run with two workers the next iteration is
\* restarting the server.
C9_Witness ==
    /\ thread_num = 2
    /\ iteration_count = 2
    /\ pc = "rs_start"

\* C10: a worker stores only under its own thread id, never more than once,
\* looks up no other key, and has stored exactly once when it has
\* terminated, on the normal and on the fatal path alike.
C10_WriteOnce ==
    \A w \in Threads :
      /\ \A k \in Workers : k # w => writes[w][k] = 0
      /\ writes[w][w] <= 1
      /\ reads[w] \subseteq {w}
      /\ (pc \in {"mt_start", "mt_join", "tc_record"} /\ wpc[w] = "done")
           => writes[w][w] = 1 /\ time_stamp[w] # None

\* C10 witness: a worker stored its statistics, then failed writing its log
\* (the fatal path), and terminated with the first record still in place.
C10_Witness ==
    \E w \in Threads :
      /\ thread_num = 2
      /\ pc = "mt_join"
      /\ wpc[w] = "done"
      /\ w \in wfatal
      /\ writes[w][w] = 1
      /\ time_stamp[w].value > 0

\* the connections a worker holds or has executed a query on
ConnsOf(w) == (wused[w] \cup {wconn[w]}) \ {None}

\* C11: in every interleaving each worker executes its queries on one
\* connection only, which it holds itself; no two workers hold or have used
\* the same connection, and no worker holds or uses a connection made by
\* Database.get_conn.
C11_OwnConnection ==
    \A w \in Workers :
      /\ None \notin wused[w]
      /\ Cardinality(ConnsOf(w)) <= 1
      /\ \A v \in Workers : v # w => ConnsOf(w) \cap ConnsOf(v) = {}
      /\ \A c \in ConnsOf(w) : c.cls # "Database"

\* C11 witness: two workers are inside their query loops at the same time,
\* each having executed a query on its connection.
C11_Witness ==
    /\ thread_num = 2
    /\ \A w \in Threads : wpc[w] = "loop" /\ wused[w] # {} /\ wconn[w] # None

Min(a, b) == IF a < b THEN a ELSE b

RECURSIVE SumLen(_, _)
SumLen(f, n) == IF n = 0 THEN 0 ELSE Len(f[n - 1]) + SumLen(f, n - 1)

\* C12: when data_pre has returned, with Q' = min(Q, 3000) and N workers:
\* the sizes of the partitions sum to Q'; every size is floor(Q'/N) or
\* ceil(Q'/N); partition w holds exactly the queries i < Q' with
\* i mod N = w, each once, in their original order; one query and N > 1
\* give one worker that query and the others none.
C12_RoundRobin ==
    dp.pc = "done" =>
      LET n == thread_num
          q == Min(dp.file_len, QueryLimit)
          part == dp.sql_list_idx
          lo == q \div n
          hi == (q + n - 1) \div n
      IN  /\ DOMAIN part = 0..(n - 1)
          /\ SumLen(part, n) = q
          /\ \A w \in 0..(n - 1) :
               /\ Len(part[w]) \in {lo, hi}
               /\ \A k \in 1..Len(part[w]) :
                    /\ part[w][k] \in 0..(q - 1)
                    /\ part[w][k] % n = w
                    /\ k > 1 => part[w][k - 1] < part[w][k]
          /\ (dp.file_len = 1 /\ n > 1) =>
               /\ part[0] = <<0>>
               /\ \A w \in 1..(n - 1) : part[w] = <<>>

\* C12 witness: a file above the limit has been partitioned over two
\* workers, half of the limit each.
C12_Witness ==
    /\ dp.pc = "done"
    /\ dp.file_len > QueryLimit
    /\ thread_num = 2
    /\ Len(dp.sql_list_idx[0]) = QueryLimit \div 2
    /\ Len(dp.sql_list_idx[1]) = QueryLimit \div 2

\* C13 (as claimed): with an empty workload no worker thread is started, no
\* worker connection is opened, and run returns throughput_qps = 0.
C13_EmptyNoWorker ==
    (tool = "dwg" /\ num_queries = 0 /\ iteration_count = 1) =>
      /\ \A w \in Workers : wpc[w] \in {"none", "new"} /\ wconn[w] = None
      /\ RunReturned => result.throughput_qps = Zero

----------------------------------------------------------------------------
(* Properties of the tuner *)

\* the run uses _smac (tune routes every method but HEBO to it)
IsSmac == tuning_method # "HEBO"

\* the costs of the evaluations completed so far
Costs == [k \in 1..Len(evals) |-> evals[k].cost]

\* the smallest element of a non-empty sequence of integers
MinOf(seq) == CHOOSE m \in {seq[k] : k \in 1..Len(seq)} :
                \A k \in 1..Len(seq) : m <= seq[k]

\* the first position of a non-empty sequence that holds its minimum
FirstMin(seq) == CHOOSE i \in 1..Len(seq) :
                   /\ seq[i] = MinOf(seq)
                   /\ \A k \in 1..(i - 1) : seq[k] # MinOf(seq)

\* C14: in a SMAC run every evaluation either is strictly below best_cost,
\* and then becomes best_cost and resets the plateau counter to 0, or
\* leaves best_cost alone and adds exactly 1 to the counter; so the counter
\* always is the number of evaluations since the last strict improvement
C14_PlateauCounter ==
    /\ [][IsSmac /\ Len(evals') = Len(evals) + 1 =>
            LET new == evals'[Len(evals')].cost
                old == early_stop_state
                now == early_stop_state'
            IN  IF old.best_cost.inf \/ new < old.best_cost.v
                THEN /\ now.best_cost = Fin(new)
                     /\ now.iterations_without_improvement = 0
                ELSE /\ now.best_cost = old.best_cost
                     /\ now.iterations_without_improvement =
                          old.iterations_without_improvement + 1]_vars
    /\ [](IsSmac =>
            early_stop_state.iterations_without_improvement =
              IF evals = <<>> THEN 0 ELSE Len(evals) - FirstMin(Costs))

\* C14 witness: a SMAC run that improved after its first evaluation and has
\* since counted two evaluations without improvement
C14_Witness ==
    /\ IsSmac
    /\ Len(evals) >= 4
    /\ evals[1].cost = 0
    /\ early_stop_state.best_cost = Fin(0 - 1)
    /\ early_stop_state.iterations_without_improvement = 2

\* the evaluations so far all returned the same objective
ConstantObjective == \A k \in 1..Len(evals) : evals[k].cost = evals[1].cost

\* every call of objective_function so far completed its evaluation
NoCrash == iteration_counter = Len(evals)

\* the scenario of C15: plateau of 3, a budget the plateau cannot use up,
\* a constant objective and no failed evaluation, after the run
PlateauScenario ==
    /\ IsSmac
    /\ tpc = "done"
    /\ PLATEAU_ITERATIONS = 3
    /\ runcount > 4
    /\ ConstantObjective
    /\ NoCrash

\* C15: in a SMAC run, once an evaluation has brought the plateau counter
\* to PLATEAU_ITERATIONS no further configuration is evaluated, so no more
\* than PLATEAU_ITERATIONS evaluations in a row fail to improve; with a
\* constant objective, a plateau of 3 and a larger budget the run makes
\* exactly 4 evaluations and best_config.json has early_stopped true and
\* iterations 4
C15_EarlyStop ==
    /\ [][/\ IsSmac
           /\ evals # <<>>
           /\ early_stop_state.iterations_without_improvement
                >= PLATEAU_ITERATIONS
           => tcalls' = tcalls /\ evals' = evals]_vars
    /\ [](IsSmac /\ evals # <<>> =>
            Len(evals) - FirstMin(Costs) <= PLATEAU_ITERATIONS)
    /\ [](PlateauScenario =>
            /\ Len(evals) = 4
            /\ best_config_file.early_stopped = TRUE
            /\ best_config_file.iterations = 4)

\* C15 witness: the scenario has run to its end and stopped early
C15_Witness ==
    /\ PlateauScenario
    /\ runcount = MaxSmacRuns
    /\ smac.runs < runcount
    /\ best_config_file.early_stopped = TRUE

\* the best cost the running strategy tracks
TrackedBest == IF IsSmac THEN early_stop_state.best_cost ELSE best_objective

\* C16: in both strategies the tracked best cost never increases, it always
\* is the minimum objective of the evaluations completed so far, and it is
\* replaced only by a strictly lower objective; in a HEBO run the
\* incumbent configuration is the earliest one with that minimum (a tie
\* keeps the earlier configuration)
C16_IncumbentMonotone ==
    /\ [][/\ (~TrackedBest.inf =>
                ~TrackedBest'.inf /\ TrackedBest'.v <= TrackedBest.v)
           /\ (TrackedBest' # TrackedBest =>
                /\ Len(evals') = Len(evals) + 1
                /\ TrackedBest' = Fin(evals'[Len(evals')].cost)
                /\ (TrackedBest.inf
                     \/ evals'[Len(evals')].cost < TrackedBest.v))
           /\ (~IsSmac /\ best_config' # best_config =>
                /\ Len(evals') = Len(evals) + 1
                /\ best_config' = evals'[Len(evals')].config
                /\ (best_objective.inf
                     \/ evals'[Len(evals')].cost < best_objective.v))]_vars
    /\ [](TrackedBest = IF evals = <<>> THEN Inf ELSE Fin(MinOf(Costs)))
    /\ [](~IsSmac /\ evals # <<>> =>
            best_config = evals[FirstMin(Costs)].config)

\* C16 witness: a HEBO run in which a suggestion improved on the default
\* and a later, different suggestion tied with it
C16_Witness ==
    /\ ~IsSmac
    /\ Len(evals) >= 3
    /\ evals[2].cost < evals[1].cost
    /\ evals[3].cost = evals[2].cost
    /\ evals[3].config # evals[2].config
    /\ best_config = evals[2].config
    /\ best_objective = Fin(evals[2].cost)

\* the cost fields of the lines of runhistory.jsonl
LineCosts == [k \in 1..Len(history_file) |-> history_file[k].cost]

\* C17: at every point during or after a HEBO run at which runhistory.jsonl
\* has lines, best_config.json exists and its best_cost is the minimum cost
\* of those lines
C17_BestFileTracksHistory ==
    ~IsSmac /\ history_file # <<>> =>
        /\ best_config_file # None
        /\ best_config_file.best_cost = Fin(MinOf(LineCosts))

\* C18: when a HEBO run that observed performances has ended, the minimum of
\* the cost fields of the lines of runhistory.jsonl is best_cost of
\* best_config.json, and the configuration stored there is the config of the
\* first line with that minimum
C18_RoundTrip ==
    ~IsSmac /\ tpc = "done" /\ evals # <<>> =>
        /\ history_file # <<>>
        /\ best_config_file # None
        /\ best_config_file.best_cost = Fin(MinOf(LineCosts))
        /\ best_config_file.configuration =
             history_file[FirstMin(LineCosts)].config

\* C18 witness: a finished HEBO run whose minimum was first reached by a
\* suggestion and reached again by a different one
C18_Witness ==
    /\ ~IsSmac
    /\ tpc = "done"
    /\ Len(history_file) >= 3
    /\ FirstMin(LineCosts) = 2
    /\ history_file[3].cost = history_file[2].cost
    /\ history_file[3].config # history_file[2].config

\* C19: in every run the runhistory file has exactly one line for each
\* iteration completed so far
C19_OneLinePerIteration == Len(history_file) = Len(evals)

\* C20: in a HEBO run the first evaluation is iteration 0 with the default
\* configuration, the first call on the optimizer is observe with the
\* default point (so it comes before any suggest), and the first line of
\* runhistory.jsonl is the iteration-0 record with note DEFAULT_CONFIG
C20_BaselineAnchoring ==
    ~IsSmac =>
        /\ tcalls # <<>> =>
             tcalls[1] = [iteration |-> 0, config |-> default_config]
        /\ hebo # <<>> =>
             /\ hebo[1].op = "observe"
             /\ hebo[1].x = Tunable(default_config)
             /\ hebo[1].y = evals[1].cost
        /\ history_file # <<>> =>
             /\ history_file[1].iteration = 0
             /\ history_file[1].note = "DEFAULT_CONFIG"
             /\ history_file[1].config = default_config

\* C20 witness: a HEBO run that has gone on to suggest and observe a
\* configuration after the baseline
C20_Witness ==
    /\ ~IsSmac
    /\ Len(hebo) >= 3
    /\ hebo[2].op = "suggest"
    /\ Len(history_file) >= 2
    /\ Len(tcalls) >= 2

\* the search space has no dimension: every knob has min == max
ZeroDimensional == ConstantNames = Knobs

\* the tuner has returned or raised
TuneEnded == tpc \in {"done", "raised", "raised_type_error"}

\* C21: when every knob has min == max, a tuning run that has returned has
\* had the driver evaluate the default configuration (every knob at its
\* only value)
C21_ZeroDimBaseline ==
    ZeroDimensional /\ tpc = "done" =>
        \E k \in 1..Len(tcalls) : tcalls[k].config.names = Knobs

\* C22: in a HEBO run best_config.json is written only after the loop has
\* made all of its runcount iterations, runcount + 1 evaluations with the
\* one of the default configuration
C22_HeboRunsWholeBudget ==
    ~IsSmac /\ best_config_file # None =>
        /\ iteration = runcount
        /\ Len(evals) = runcount + 1

\* C23: a failure inside an iteration does not end the tuning: when a HEBO
\* run has ended it has returned (not raised), every test_config call it
\* made has given the optimizer an observation, and all the iterations of
\* the budget were made
C23_FailureKeepsTuning ==
    ~IsSmac /\ TuneEnded /\ tcalls # <<>> =>
        /\ tpc = "done"
        /\ Len(evals) = Len(tcalls)
        /\ iteration = runcount

\* C24: when the tuning of a workload has ended, on whatever path,
\* best_config.json has been written (stated for the paths of _hebo)
C24_BestConfigAlwaysWritten ==
    ~IsSmac /\ TuneEnded => best_config_file # None

\* C25: every configuration either strategy passes to test_config has a
\* value for every knob of the catalogue
C25_ConfigurationComplete ==
    \A k \in 1..Len(tcalls) : tcalls[k].config.names = Knobs

\* the observe calls made on the HEBO optimizer, in order
Observed == LET IsObserve(e) == e.op = "observe" IN SelectSeq(hebo, IsObserve)

\* C26: in both strategies the objective of every evaluation is the
\* negated performance when the performance is positive and the
\* performance itself otherwise, and that objective is what the optimizer
\* gets (the value objective_function returns to SMAC, the y of
\* hebo.observe); a positive performance is never handed over unnegated
C26_ObjectiveSign ==
    /\ \A k \in 1..Len(evals) :
         /\ evals[k].perf > 0 => evals[k].cost = 0 - evals[k].perf
         /\ evals[k].perf <= 0 => evals[k].cost = evals[k].perf
         /\ evals[k].perf > 0 => evals[k].cost < 0
    /\ ~IsSmac =>
         /\ Len(Observed) = Len(evals)
         /\ \A k \in 1..Len(evals) : Observed[k].y = evals[k].cost

\* C26 witness: a HEBO run that has observed a positive, a zero and a
\* negative performance
C26_Witness ==
    /\ ~IsSmac
    /\ Len(Observed) >= 3
    /\ {evals[k].perf : k \in 1..Len(evals)} = {0 - 1, 0, 1}

\* the objective the tuner derives from a throughput n/d (d > 0) returned
\* by test_config
ObjectiveOfRate(rate) == Frac(Objective(rate.num), rate.den)

\* run has returned for a workload of two queries of which exactly one
\* failed, every worker having stored its record
Poisoned ==
    /\ RunReturned
    /\ num_queries = 2
    /\ missing_threads = 0
    /\ total_errors = 1

\* C27 (as claimed): the poisoned iteration has throughput 0 and average
\* latency 1e9, and its objective is strictly greater than 0
C27_PoisonedPositive ==
    Poisoned =>
        /\ result = InvalidResult
        /\ y = Zero
        /\ ObjectiveOfRate(y).num > 0

\* C27 (amended): the poisoned iteration has throughput 0 and average
\* latency 1e9, and its objective is 0, which is strictly greater than the
\* objective of every iteration that returned a positive throughput
C27_PoisonedZero ==
    /\ Poisoned =>
         /\ result = InvalidResult
         /\ y = Zero
         /\ ObjectiveOfRate(y) = Zero
    /\ RunReturned /\ y.num > 0 => ObjectiveOfRate(y).num < 0

\* C27 witness: one worker ran both queries, one succeeded and one failed
C27_Witness ==
    /\ Poisoned
    /\ thread_num = 1
    /\ time_stamp[0].value = 1
    /\ time_stamp[0].error_count = 1
    /\ y = Zero

\* C28: at every point during and after every test_config call, on every
\* tool path, the mapping the caller passed has the keys and values it had
\* before the call: no key is added to it
C28_ConfigNotMutated ==
    /\ heap.config.knobs = "as given"
    /\ heap.config.fields = {}

\* C28 witness: a call has written its records and returned
C28_Witness ==
    /\ pc = "idle"
    /\ ret.status = "returned"
    /\ logs.train > 0
    /\ logs.offline > 0
    /\ heap.config.fields = {}

----------------------------------------------------------------------------
(* Properties of the orchestrator *)

\* the filter of the run in progress has been applied
Filtered == main.run >= 1 /\ main.pc # "start"

\* the workloads are tuned in their natural order, none of the skipped ones
\* among them and none of the others passed over
TunedInOrder ==
    \A i \in 1..Len(main.tuned) :
        LET earlier == {main.tuned[j] : j \in 1..(i - 1)}
            left == (main.dir \ main.skipped) \ earlier
        IN  /\ main.tuned[i] \in left
            /\ \A w \in left \ {main.tuned[i]} : Before(main.tuned[i], w)

\* a workload whose tuning died in an earlier run after its record file was
\* created is skipped by this run
CrashedAreSkipped ==
    \A c \in main.crashed :
        (c.recorded /\ c.run < main.run /\ Filtered)
            => c.workload \in main.skipped

\* C29 as stated: the orchestrator skips a workload if and only if the
\* record file named after that workload is in the performance-record
\* directory; a workload that crashed after its record file was created is
\* skipped by the next run, which goes on with the next workload in order
C29_SkipsIffOwnRecord ==
    /\ \A w \in main.dir :
          w \in main.skipped <=> RecordFile(w) \in main.perf_at_start
    /\ CrashedAreSkipped
    /\ TunedInOrder

\* C29 amended: the orchestrator skips a workload if and only if the
\* performance-record directory holds a file whose name without its
\* extension is the workload's file name or the workload's file name without
\* its extension; a workload that crashed after its record file was created
\* is skipped by the next run, which goes on with the next workload in order
C29_SkipsIffStemMatches ==
    /\ \A w \in main.dir :
          w \in main.skipped
              <=> \E fname \in main.perf_at_start :
                      Stem(fname) \in {w, Stem(w)}
    /\ CrashedAreSkipped
    /\ TunedInOrder

\* a later run has skipped a workload that crashed after its record file was
\* created and has tuned the workload after it
C29_Witness ==
    /\ Filtered
    /\ \E c \in main.crashed :
          /\ c.recorded
          /\ c.run < main.run
          /\ c.workload \in main.skipped
          /\ Len(main.tuned) > 0
          /\ Before(c.workload, main.tuned[1])

\* the run in progress tunes nothing: run_tuning is not called (no baseline
\* run, no knob application, no evaluation) and no record is written
NoOp == main.tuned = <<>> /\ main.perf_dir = main.perf_at_start

\* every session so far returned after recording, and no run died
AllSessionsClean == main.faults = 0 /\ main.crashed = {}

\* C30 as stated: after a first run, in which every session went well, has
\* populated the performance-record directory, a second run over the same
\* inputs tunes no workload, for every number of discovered workloads
C30_SecondRunNoOp ==
    (main.run >= 2 /\ Filtered /\ AllSessionsClean
         /\ main.perf_at_start # {})
        => NoOp

\* C30 amended: a run that finds a record file for every discovered workload
\* is a no-op, for every number of discovered workloads; a first run in which
\* every session went well leaves such a directory when at most 13 workloads
\* are discovered
C30_NoOpWhenAllRecorded ==
    /\ (Filtered /\ \A w \in main.dir : RecordFile(w) \in main.perf_at_start)
           => (NoOp /\ main.pc = "done")
    /\ (main.run >= 2 /\ Filtered /\ AllSessionsClean
            /\ main.total_workloads <= BatchSize)
           => NoOp

\* a later run over a large workload set has found every workload recorded
C30_Witness ==
    /\ main.run >= 2
    /\ Filtered
    /\ main.total_workloads >= SmallSetLimit
    /\ \A w \in main.dir : RecordFile(w) \in main.perf_at_start
    /\ main.pc = "done"

----------------------------------------------------------------------------
(* Properties of the transactional executor *)

\* the summary files the last harness run left that can be parsed
ParseableOfLastRun ==
    {f \in bench.dir \cup bench.archive :
         f.run = bench.run /\ f.kind = "summary" /\ f.ok}

\* C31: when the harness has exited with a non-zero code, run_benchmark has
\* still looked for a summary file, and it has returned 0 only if no summary
\* of that run can be parsed
C31_ErrorExitStillParses ==
    (bench.run >= 1 /\ bench.state # 0) =>
        /\ bench.cleaned
        /\ (bench.throughput = NoThroughput => ParseableOfLastRun = {})

\* C35: a throughput returned by run_benchmark was parsed from the summary
\* file written by the harness run of that same call, never from a file an
\* earlier call left in the results directory
C35_ThroughputOfThisRun ==
    (bench.run >= 1 /\ bench.throughput.value = "throughput") =>
        bench.throughput.run = bench.run

----------------------------------------------------------------------------
(* Properties of fetch_inner_metrics *)

\* a mapping of the driver's cur_state is empty (nothing fetched yet) or has
\* the 14 names, all measured or all zero
WellTyped(metrics) ==
    metrics # NoMetrics =>
        /\ DOMAIN metrics = DbCounters \cup IoCounters
        /\ \/ \A name \in DOMAIN metrics : metrics[name] = "measured"
           \/ \A name \in DOMAIN metrics : metrics[name] = "0.0"

\* C32: every mapping fetch_inner_metrics returns has the 14 counter names;
\* it holds the measured values when the three queries succeed and zeros
\* under every name when one of them fails, never a part of the names or a
\* mix of values; the call raises only when get_conn has raised; no other
\* step of the driver changes the mapping except to drop it
C32_MetricsWellTyped ==
    [][IF pc = "fm_conn" /\ pc' # pc
       THEN /\ \A failed \in FailPoints :
                 /\ DOMAIN FetchResult(failed) = DbCounters \cup IoCounters
                 /\ Cardinality(DOMAIN FetchResult(failed)) = 14
                 /\ \A name \in DOMAIN FetchResult(failed) :
                        FetchResult(failed)[name]
                            = IF failed = "none" THEN "measured" ELSE "0.0"
            /\ (pc' = "raise") => (gc.pc = "raise" /\ cur_state' = cur_state)
            /\ (pc' # "raise")
                  => (cur_state' # NoMetrics /\ WellTyped(cur_state'))
       ELSE cur_state' = cur_state \/ cur_state' = NoMetrics]_vars

\* C32 witness: a counter query has failed, the driver holds the all-zero
\* mapping and goes on to run the workload
C32_Witness ==
    /\ pc = "tc_dispatch"
    /\ cur_state = OnError(NoMetrics)
    /\ cur_state # Measured(DbCounters \cup IoCounters)

----------------------------------------------------------------------------
(* Properties of the records of test_config *)

\* this step is the return of a test_config call
Returns == ret.status = "running" /\ ret'.status = "returned"

\* the record files after n lines more in the training log and the
\* performance file and m lines more in the offline sample
Grown(n, m) == [train |-> logs.train + n, offline |-> logs.offline + m,
                perf |-> logs.perf + n]

\* C33: a test_config call that returns with tool dwg or benchbase appends
\* exactly one line to the training log, one to the offline sample and one
\* to the performance file of the workload, also when the performance is 0;
\* with tool surrogate the offline line is skipped; with an unknown tool it
\* returns 0.0 and appends nothing; no line is written at any other step
C33_OneRecordPerCall ==
    [][/\ (Returns /\ tool \in {"dwg", "benchbase"}) => logs' = Grown(1, 1)
       /\ (Returns /\ tool = "surrogate") => logs' = Grown(1, 0)
       /\ (Returns /\ tool \notin {"dwg", "benchbase", "surrogate"})
             => (logs' = logs /\ ret'.y = Zero)
       /\ ~Returns => logs' = logs]_vars

\* C33 witness: a dwg call has returned the performance 0 and the three
\* files have one line for each call so far
C33_Witness ==
    /\ tool = "dwg"
    /\ ret.status = "returned"
    /\ ret.y = Zero
    /\ iteration_count >= 1
    /\ logs = [train |-> iteration_count, offline |-> iteration_count,
               perf |-> iteration_count]

----------------------------------------------------------------------------
(* Properties of the query loop of a worker *)

\* C34: while a worker is in its query loop without a fatal exception it has
\* attempted the first wi of its queries, one pass each and in order, and
\* its query count plus its error count is the number of queries attempted;
\* at the end of the loop that is the number of queries assigned to it
C34_CountsAddUp ==
    \A w \in Workers :
        wpc[w] = "loop" =>
            /\ wi[w] <= WgLen(w)
            /\ wstats[w].query_count + wstats[w].error_count = wi[w]

----------------------------------------------------------------------------
(* Properties of the knob loop of change_knob *)

\* what the knob loop of this call has done, knob after knob
KnobEvents ==
    SelectSeq(events, LAMBDA e : e \in {"set_ok", "set_fail", "cast_error"})

\* change_knob is about to return false because of a knob, not of the restart
KnobFailureReturn ==
    /\ pc = "ck_ret"
    /\ \E i \in 1..Len(KnobEvents) :
          KnobEvents[i] \in {"set_fail", "cast_error"}

\* the first n knobs were attempted once each, in order, and the override
\* of each accepted one is in postgresql.auto.conf
AttemptedInOrder(n) ==
    /\ Len(KnobEvents) = n
    /\ \A i \in 1..n : KnobEvents[i] = "set_ok" => autoConf[i] # "unset"

\* C36 as stated: when change_knob returns false because of a knob failure,
\* every knob of the configuration has been attempted exactly once, in
\* order, the override of every accepted knob is written, and the server has
\* not been restarted
C36_EveryKnobAttempted ==
    KnobFailureReturn =>
        /\ AttemptedInOrder(NumKnobs)
        /\ ~success
        /\ rs = RsIdle

\* C36 amended: a rejected SET does not stop the loop, so when no value
\* failed to cast every knob has been attempted exactly once, in order; a
\* value that cannot be cast to the declared type of its knob ends the loop
\* at that knob, the knobs before it having been attempted once each; in
\* both cases the overrides of the accepted knobs are written and the server
\* has not been restarted
C36_LoopStopsOnlyOnCastError ==
    KnobFailureReturn =>
        /\ ~success
        /\ rs = RsIdle
        /\ IF \E i \in 1..Len(KnobEvents) : KnobEvents[i] = "cast_error"
           THEN /\ AttemptedInOrder(knobIdx)
                /\ KnobEvents[knobIdx] = "cast_error"
                /\ \A i \in 1..(knobIdx - 1) : KnobEvents[i] # "cast_error"
           ELSE /\ AttemptedInOrder(NumKnobs)
                /\ knobIdx = NumKnobs + 1

\* C36 witness: the SET of the first knob was rejected, the later knobs
\* were still set, and change_knob is about to return false
C36_Witness ==
    /\ KnobFailureReturn
    /\ Len(KnobEvents) = NumKnobs
    /\ KnobEvents[1] = "set_fail"
    /\ \A i \in 2..NumKnobs : KnobEvents[i] = "set_ok"
    /\ rs = RsIdle

----------------------------------------------------------------------------
(* Properties of the parsing of a workload file *)

\* the file has been parsed
Parsed == dp.pc \in {"loop", "done"}

\* the statements of the fragments of the file, before any is removed
AllStatements == Suffixed(re_split(dp.wg_file, <<>>, FALSE))

\* the number of statements ';' in a list
Empties(list) == Len(SelectSeq(list, LAMBDA q : q = <<";">>))

\* the file has a delimiter, a blank, and a delimiter in a row
BlankBetweenDelimiters ==
    \E i \in 1..(Len(dp.wg_file) - 2) :
        /\ dp.wg_file[i] \in Delimiters
        /\ dp.wg_file[i + 1] = "sp"
        /\ dp.wg_file[i + 2] \in Delimiters

\* C37: data_pre removes at most one empty fragment, the trailing one; the
\* empty fragment of a leading delimiter and the one of a blank between two
\* delimiters stay in the parsed list as the statement ';', and every ';' of
\* the list has been assigned to a worker when data_pre returns
C37_OnlyTrailingEmptyRemoved ==
    Parsed =>
        /\ Len(AllStatements) - 1 <= Len(dp.sql_list)
        /\ Len(dp.sql_list) <= Len(AllStatements)
        /\ dp.sql_list = SubSeq(AllStatements, 1, Len(dp.sql_list))
        /\ (Len(dp.sql_list) < Len(AllStatements)
               => AllStatements[Len(AllStatements)] = <<";">>)
        /\ ((dp.wg_file # <<>> /\ Head(dp.wg_file) \in Delimiters)
               => (dp.sql_list # <<>> /\ dp.sql_list[1] = <<";">>))
        /\ (BlankBetweenDelimiters => Empties(dp.sql_list) >= 1)
        /\ (dp.pc = "done" =>
               Empties(dp.sql_list) =
                   Empties(dp.sql_list_idx[0])
                     + (IF thread_num > 1 THEN Empties(dp.sql_list_idx[1])
                                          ELSE 0)
                     + (IF thread_num > 2 THEN Empties(dp.sql_list_idx[2])
                                          ELSE 0)
                     + (IF thread_num > 3 THEN Empties(dp.sql_list_idx[3])
                                          ELSE 0))

\* C37 witness: the file ";q;" has been parsed into the statement ';' of its
\* leading delimiter and the query, the trailing empty fragment removed, and
\* data_pre has returned
C37_Witness ==
    /\ dp.pc = "done"
    /\ dp.wg_file = <<";", "q", ";">>
    /\ dp.sql_list = << <<";">>, <<"q", ";">> >>

----------------------------------------------------------------------------
(* Properties of the orchestrator's loop over the workloads *)

\* C38: when the orchestrator has ended its loop, every workload selected
\* for tuning has been handled, those whose tuning raised counted as failed
\* and the loop gone on after them, so that successful + failed is the
\* number of workloads selected, for every number of discovered workloads
C38_FailureContinues ==
    (main.pc = "done" /\ main.run >= 1) =>
        /\ main.idx = Len(main.workloads_to_tune)
        /\ main.successful + main.failed = Len(main.workloads_to_tune)

====
